---- MODULE Spec2Model ----
(***************************************************************************)
(* Model of the NV Speech Player phoneme-to-frame pipeline (src/ipa.py)    *)
(* and of the threads of its NVDA synth driver                             *)
(* (src/nvdaAddon/synthDrivers/nvSpeechPlayer/__init__.py).                *)
(*                                                                         *)
(* Text is a sequence of characters.  A character is a one-element TLA+    *)
(* string: an ASCII character stands for itself, every other code point is *)
(* written by a name:                                                      *)
(*   "pri" U+02C8   "sec" U+02CC   "long" U+02D0   "tie" U+0361            *)
(*   "tie_below" U+035C   "comb_tilde" U+0303   "syllabic" U+0329          *)
(*   "nonsyllabic" U+032F   "sup_j" U+02B2   "rhotic_hook" U+02DE          *)
(*   "a_tilde" U+00E3  "e_tilde" U+1EBD  "i_tilde" U+0129                  *)
(*   "o_tilde" U+00F5  "u_tilde" U+0169  "ae" U+00E6  "c_cedilla" U+00E7   *)
(*   "eth" U+00F0  "o_slash" U+00F8  "eng" U+014B  "oe" U+0153             *)
(*   "turned_a" U+0250  "alpha" U+0251  "turned_alpha" U+0252              *)
(*   "open_o" U+0254  "c_curl" U+0255  "reversed_e" U+0258  "schwa" U+0259 *)
(*   "schwa_hook" U+025A  "open_e" U+025B  "rev_open_e" U+025C             *)
(*   "rev_open_e_hook" U+025D  "j_stroke" U+025F  "gamma" U+0263           *)
(*   "rams_horn" U+0264  "i_stroke" U+0268  "small_cap_i" U+026A           *)
(*   "l_tilde" U+026B  "n_hook" U+0272  "barred_o" U+0275                  *)
(*   "turned_r" U+0279  "fishhook_r" U+027E  "inv_R" U+0281                *)
(*   "s_hook" U+0282  "esh" U+0283  "upsilon" U+028A  "turned_v" U+028C    *)
(*   "turned_y" U+028E  "z_hook" U+0290  "z_curl" U+0291  "ezh" U+0292     *)
(*   "glottal" U+0294  "j_tail" U+029D  "beta" U+03B2  "theta" U+03B8      *)
(*   "smallcap_a" U+1D00  "smallcap_e" U+1D07  "smallcap_open_o" U+1D10    *)
(*   "sideways_open_o" U+1D12  "smallcap_u" U+1D1C                         *)
(*   "smallcap_i_stroke" U+1D7B                                            *)
(* Python's None is the empty sequence where an optional record is meant,  *)
(* and the string "None" where an optional character is meant.             *)
(***************************************************************************)
EXTENDS Integers, Sequences, FiniteSets, TLC

VARIABLES
    pc,          \* position of the call being modelled
    ipaText,     \* the text argument
    language,    \* the language argument (<<>> is None)
    phonemeList, \* the list built by IPAToPhonemes and annotated by the passes
    normText,    \* the text returned by normalizeIPA
    renormText,  \* the text returned by normalizeIPA applied to normText
    speed,       \* the speed argument, a fraction
    clauseType,  \* the clauseType argument ("None" is None)
    intonationParams, \* key of the intonation row selected ("None": none yet)
    raised,      \* the exception that ended the call ("none": none)
    frames,      \* the triples yielded so far
    slowdown,    \* the pair returned by _get_stress_slowdown (<<>>: none yet)
    pitchCall,   \* the arguments of the applyPitchPath call (<<>>: none yet)
    speaks,      \* number of speak() calls made; the n-th call is request n
    callerPc,    \* position of the thread that calls speak() and cancel()
    cancelledUpTo, \* the last request made before the last cancel() that returned
    bgQueue,     \* SynthDriver._bgQueue: the items not yet taken by _BgThread
    bgPc,        \* position of _BgThread
    bgItem,      \* the item _BgThread took last
    bgLeft,      \* queueFrame calls _speakBg has still to make for bgItem
    player,      \* the frames queued in the player: the request of each (0: cancel)
    isSpeaking,  \* _AudioThread.isSpeaking
    wake,        \* _AudioThread._wake is set
    audioPc      \* position of _AudioThread.run

pipelineVars == <<pc, ipaText, language, phonemeList, normText, renormText,
                  speed, clauseType, intonationParams, raised, frames, slowdown,
                  pitchCall>>

driverVars == <<speaks, callerPc, cancelledUpTo, bgQueue, bgPc, bgItem, bgLeft,
                player, isSpeaking, wake, audioPc>>

vars == <<pipelineVars, driverVars>>

\* The driver after SynthDriver.__init__: both threads started, nothing said.
DriverIdle ==
    /\ speaks = 0
    /\ callerPc = "idle"
    /\ cancelledUpTo = 0
    /\ bgQueue = <<>>
    /\ bgPc = "get"
    /\ bgItem = [id |-> 0, func |-> "None", frames |-> 0]
    /\ bgLeft = 0
    /\ player = <<>>
    /\ isSpeaking = FALSE
    /\ wake = FALSE
    /\ audioPc = "wait"

\* ------------------------------------------------------------------ bounds
MaxSegLen == 4
MaxNormLen == 3
MaxGenLen == 2

\* ------------------------------------------------------- python helpers
SetMax(S) == CHOOSE x \in S : \A y \in S : y <= x
SetMin(S) == CHOOSE x \in S : \A y \in S : x <= y
Min(a, b) == IF a < b THEN a ELSE b

\* text[a:b] with Python's clamping (0 <= a)
Slice(text, a, b) ==
    IF a >= Len(text) \/ b <= a THEN <<>>
    ELSE SubSeq(text, a + 1, Min(b, Len(text)))

\* str.startswith
StartsWith(s, p) == Len(s) >= Len(p) /\ SubSeq(s, 1, Len(p)) = p

\* one character of str.lower() after replace('_', '-')
LowerChar(c) ==
    CASE c = "_" -> "-"
      [] c = "A" -> "a" [] c = "B" -> "b" [] c = "C" -> "c" [] c = "D" -> "d"
      [] c = "E" -> "e" [] c = "F" -> "f" [] c = "G" -> "g" [] c = "H" -> "h"
      [] c = "I" -> "i" [] c = "J" -> "j" [] c = "K" -> "k" [] c = "L" -> "l"
      [] c = "M" -> "m" [] c = "N" -> "n" [] c = "O" -> "o" [] c = "P" -> "p"
      [] c = "Q" -> "q" [] c = "R" -> "r" [] c = "S" -> "s" [] c = "T" -> "t"
      [] c = "U" -> "u" [] c = "V" -> "v" [] c = "W" -> "w" [] c = "X" -> "x"
      [] c = "Y" -> "y" [] c = "Z" -> "z"
      [] OTHER -> c

\* (language or '').replace('_','-').lower()
NormLang(lang) == [i \in 1..Len(lang) |-> LowerChar(lang[i])]

\* ------------------------------------------------- the phoneme table (data)
DataVowels ==
    {"a", "ae", "alpha", "turned_alpha", "turned_v", "open_o", "o", "open_e",
     "e", "rev_open_e", "schwa", "small_cap_i", "i", "upsilon", "u", "O",
     "turned_a", "i_stroke", "sideways_open_o", "smallcap_a", "smallcap_e",
     "schwa_hook", "rev_open_e_hook", "a_tilde", "e_tilde", "i_tilde",
     "o_tilde", "u_tilde", "smallcap_u"}
DataVoicelessStops == {"p", "t", "k"}
DataVoicedStops == {"b", "d", "g"}
DataVoicelessFricatives == {"f", "s", "esh", "theta", "h", "x", "c_cedilla"}
DataVoicedFricatives == {"v", "z", "ezh", "eth"}
DataLiquids == {"l", "turned_r"}
DataNasals == {"m", "n", "eng"}
DataSemivowels == {"j", "w"}
DataTaps == {"fishhook_r"}
DataTrills == {"r"}
DataVoicelessAffricates == {<<"t", "tie", "esh">>, <<"t", "tie", "s">>}
DataVoicedAffricates == {<<"d", "tie", "ezh">>}

DataKeys ==
    {<<c>> : c \in DataVowels \cup DataVoicelessStops \cup DataVoicedStops
                 \cup DataVoicelessFricatives \cup DataVoicedFricatives
                 \cup DataLiquids \cup DataNasals \cup DataSemivowels
                 \cup DataTaps \cup DataTrills}
    \cup DataVoicelessAffricates \cup DataVoicedAffricates

\* acoustic (non-private) keys a table entry carries; h carries no formants
AcousticKeys == {"voiceAmplitude", "aspirationAmplitude", "cf1"}
DataAcousticKeys(k) ==
    IF k = <<"h">> THEN {"aspirationAmplitude"} ELSE AcousticKeys

In1(k, S) == Len(k) = 1 /\ k[1] \in S

\* data[k]: the class flags and acoustic values of one table entry
data(k) ==
    [ isVowel     |-> In1(k, DataVowels),
      isVoiced    |-> \/ In1(k, DataVowels \cup DataVoicedStops
                                  \cup DataVoicedFricatives \cup DataLiquids
                                  \cup DataNasals \cup DataSemivowels
                                  \cup DataTaps \cup DataTrills)
                      \/ k \in DataVoicedAffricates,
      isStop      |-> In1(k, DataVoicelessStops \cup DataVoicedStops),
      isAfricate  |-> k \in DataVoicelessAffricates \cup DataVoicedAffricates,
      isLiquid    |-> In1(k, DataLiquids),
      isNasal     |-> In1(k, DataNasals),
      isSemivowel |-> In1(k, DataSemivowels),
      isTap       |-> In1(k, DataTaps),
      isTrill     |-> In1(k, DataTrills),
      copyAdjacent |-> k = <<"h">>,
      acoustic    |-> [a \in DataAcousticKeys(k) |-> k] ]

\* the annotations a record of the list can carry, all absent
NoAnnotations ==
    [ char |-> "None", stress |-> 0, syllableStart |-> FALSE,
      wordStart |-> FALSE, tiedTo |-> FALSE, tiedFrom |-> FALSE,
      lengthened |-> FALSE, postStopAspiration |-> FALSE,
      preStopGap |-> FALSE, silence |-> FALSE,
      src |-> 0 ]   \* src: position in the text of the character (0: inserted)

\* dict union of two records with disjoint fields
Merge(r, s) ==
    [f \in (DOMAIN r) \cup (DOMAIN s) |-> IF f \in DOMAIN r THEN r[f] ELSE s[f]]

\* data.get(k): <<>> for None, <<copy of the entry>> otherwise
DataGet(k) == IF k \in DataKeys THEN <<Merge(data(k), NoAnnotations)>> ELSE <<>>

\* ------------------------------------------------ _IPAToPhonemesHelper
\* the annotations of lines 588-597 written on the copy
HelperAnnotate(phoneme, char, index, curStress, isTiedFrom, isTiedTo, isLengthened) ==
    [phoneme EXCEPT
        !.stress = curStress,
        !.tiedFrom = isTiedFrom,
        !.tiedTo = (~isTiedFrom) /\ isTiedTo,
        !.lengthened = isLengthened,
        !.char = char,
        !.src = index + 1]

\* two characters skipped whether or not the tied entry exists
TieOffset_AlwaysTwo(found) == 2
\* line 578: the characters skipped after a character followed by a tie bar
TieOffset(found) == IF found THEN 2 ELSE 1

\* the loop body from the loop variable i on; the result is the sequence of
\* yielded pairs [char, phoneme]
RECURSIVE HelperLoop(_, _, _, _)
HelperLoop(text, i, offset, curStress) ==
    LET index == i + offset IN
    IF i >= Len(text) \/ index >= Len(text) THEN <<>>
    ELSE
      LET char == text[index + 1] IN
      IF char = "pri" THEN HelperLoop(text, i + 1, offset, 1)
      ELSE IF char = "sec" THEN HelperLoop(text, i + 1, offset, 2)
      ELSE
        LET isLengthened == Slice(text, index + 1, index + 2) = <<"long">>
            isTiedTo == Slice(text, index + 1, index + 2) = <<"tie">>
            isTiedFrom == IF index > 0
                          THEN Slice(text, index - 1, index) = <<"tie">>
                          ELSE FALSE
            wide == IF isTiedTo THEN DataGet(Slice(text, index, index + 3))
                    ELSE IF isLengthened THEN DataGet(Slice(text, index, index + 2))
                    ELSE <<>>
            offset2 == IF isTiedTo THEN offset + TieOffset(wide /= <<>>)
                       ELSE IF isLengthened THEN offset + 1
                       ELSE offset
            phoneme == IF wide /= <<>> THEN wide ELSE DataGet(<<char>>)
        IN
        IF phoneme = <<>>
        THEN <<[char |-> char, phoneme |-> <<>>]>>
                 \o HelperLoop(text, i + 1, offset2, curStress)
        ELSE <<[char |-> char,
                phoneme |-> <<HelperAnnotate(phoneme[1], char, index, curStress,
                                             isTiedFrom, isTiedTo, isLengthened)>>]>>
                 \o HelperLoop(text, i + 1, offset2, 0)

IPAToPhonemesHelper(text) == HelperLoop(text, 0, 0, 0)

\* --------------------------------------------------------- IPAToPhonemes
\* isEnglish of line 605: no language means English
SegIsEnglish_Always(lang) == TRUE
SegIsEnglish(lang) == NormLang(lang) = <<>> \/ StartsWith(NormLang(lang), <<"e", "n">>)

\* psa: the copy of data['h'] of lines 622-624
PostStopAspiration ==
    [Merge(data(<<"h">>), NoAnnotations) EXCEPT !.postStopAspiration = TRUE]

\* gap: dict(_silence=True,_preStopGap=True) of line 635
PreStopGap ==
    [ Merge([ isVowel |-> FALSE, isVoiced |-> FALSE, isStop |-> FALSE,
              isAfricate |-> FALSE, isLiquid |-> FALSE, isNasal |-> FALSE,
              isSemivowel |-> FALSE, isTap |-> FALSE, isTrill |-> FALSE,
              copyAdjacent |-> FALSE, acoustic |-> <<>> ], NoAnnotations)
      EXCEPT !.silence = TRUE, !.preStopGap = TRUE ]

\* whether line 632 takes the stress branch, which skips the gap of line 634
StressSkipsGap(stress) == stress /= 0

\* whether lines 634-636 insert the gap before the phoneme
InsertsGap(stress, phoneme) ==
    (~StressSkipsGap(stress)) /\ (phoneme.isStop \/ phoneme.isAfricate)

\* the record line 633 writes the stress on: the syllable start (Cur: the
\* phoneme of this iteration, not yet appended)
Cur == -1
StressTarget_Current(syl) == Cur
StressTarget(syl) == syl

\* line 615: the last phoneme is the onset consonant of this vowel
IsOnset_NoVowelTest(last, phoneme) == ~last.isVowel
IsOnset(last, phoneme) == (~last.isVowel) /\ phoneme.isVowel

\* line 627: the first phoneme after the start or a space starts a word
MarksWordStart_Never(newWord) == FALSE
MarksWordStart(newWord) == newWord

\* one iteration of the loop of lines 610-638.  st.list is phonemeList;
\* st.last and st.syl are the positions in it of lastPhoneme and
\* syllableStartPhoneme (0: None)
SegStep(st, isEnglish, y) ==
    IF y.char = " " THEN [st EXCEPT !.newWord = TRUE]
    ELSE IF y.phoneme = <<>> THEN st
    ELSE
      LET stress == y.phoneme[1].stress
          p0 == [y.phoneme[1] EXCEPT !.stress = 0]
          hasLast == st.last > 0
          lastIsVowel == hasLast /\ st.list[st.last].isVowel
          onset == hasLast /\ IsOnset(st.list[st.last], p0)
          promote == ~onset /\ stress = 1 /\ lastIsVowel
          list1 == IF onset
                   THEN [st.list EXCEPT ![st.last].syllableStart = TRUE]
                   ELSE st.list
          p1 == IF promote THEN [p0 EXCEPT !.syllableStart = TRUE] ELSE p0
          syl1 == IF onset THEN st.last ELSE IF promote THEN Cur ELSE st.syl
          aspirate == /\ isEnglish /\ hasLast
                      /\ list1[st.last].isStop /\ ~list1[st.last].isVoiced
                      /\ p1.isVoiced /\ ~p1.isStop /\ ~p1.isAfricate
          list2 == IF aspirate THEN Append(list1, PostStopAspiration) ELSE list1
          p2 == IF MarksWordStart(st.newWord)
                THEN [p1 EXCEPT !.wordStart = TRUE, !.syllableStart = TRUE]
                ELSE p1
          syl2 == IF MarksWordStart(st.newWord) THEN Cur ELSE syl1
          target == StressTarget(syl2)
          raises == stress /= 0 /\ target = 0
          p3 == IF stress /= 0 /\ target = Cur
                THEN [p2 EXCEPT !.stress = stress] ELSE p2
          list3 == IF stress /= 0 /\ target > 0
                   THEN [list2 EXCEPT ![target].stress = stress]
                   ELSE list2
          list4 == IF InsertsGap(stress, p3) THEN Append(list3, PreStopGap) ELSE list3
          list5 == Append(list4, p3)
      IN
      IF raises THEN [st EXCEPT !.raised = "TypeError"]
      ELSE [ list |-> list5, newWord |-> FALSE, last |-> Len(list5),
             syl |-> IF syl2 = Cur THEN Len(list5) ELSE syl2,
             raised |-> "none" ]

RECURSIVE SegLoop(_, _, _, _)
SegLoop(st, isEnglish, ys, n) ==
    IF n > Len(ys) \/ st.raised /= "none" THEN st
    ELSE SegLoop(SegStep(st, isEnglish, ys[n]), isEnglish, ys, n + 1)

IPAToPhonemes(text, lang) ==
    SegLoop([ list |-> <<>>, newWord |-> TRUE, last |-> 0, syl |-> 0,
              raised |-> "none" ],
            SegIsEnglish(lang), IPAToPhonemesHelper(text), 1).list

\* --------------------------------------- the segmenter called on its own
SegAlphabet == {"a", "t", "l", "esh", "q", " ", "pri", "sec", "long", "tie"}
SegLanguages == {<<>>, <<"e", "n">>, <<"h", "u">>}

RECURSIVE Strings(_, _)
Strings(alphabet, n) ==
    IF n = 0 THEN {<<>>}
    ELSE LET shorter == Strings(alphabet, n - 1)
         IN shorter \cup {Append(s, c) : s \in {t \in shorter : Len(t) = n - 1},
                                         c \in alphabet}

InitSeg ==
    /\ DriverIdle
    /\ pc = "call IPAToPhonemes"
    /\ ipaText \in Strings(SegAlphabet, MaxSegLen)
    /\ language \in SegLanguages
    /\ phonemeList = <<>>
    /\ normText = <<>>
    /\ renormText = <<>>
    /\ speed = <<1, 1>>
    /\ clauseType = "None"
    /\ intonationParams = "None"
    /\ raised = "none"
    /\ frames = <<>>
    /\ slowdown = <<>>
    /\ pitchCall = <<>>

CallIPAToPhonemes ==
    /\ pc = "call IPAToPhonemes"
    /\ phonemeList' = IPAToPhonemes(ipaText, language)
    /\ pc' = "returned IPAToPhonemes"
    /\ UNCHANGED driverVars
    /\ UNCHANGED <<ipaText, language, normText, renormText, speed, clauseType,
                   intonationParams, raised, frames,
                   slowdown, pitchCall>>

NextSeg == CallIPAToPhonemes

SpecSeg == InitSeg /\ [][NextSeg]_vars

\* ------------------------------------------ claims about IPAToPhonemes
Returned == pc = "returned IPAToPhonemes"
Records == 1..Len(phonemeList)
Inserted(r) == r.preStopGap \/ r.postStopAspiration

\* the records before i that come from a character of the text
RealBefore(i) == {j \in 1..(i - 1) : ~Inserted(phonemeList[j])}
\* the records after i that come from a character of the text
RealAfter(i) == {j \in (i + 1)..Len(phonemeList) : ~Inserted(phonemeList[j])}

\* C1: in the returned list every stop or affricate record is immediately
\* preceded by a record with _silence and _preStopGap, stressed or not.
C1_GapBeforeEveryStop ==
    Returned =>
        \A i \in Records :
            (phonemeList[i].isStop \/ phonemeList[i].isAfricate) =>
                /\ i > 1
                /\ phonemeList[i - 1].silence
                /\ phonemeList[i - 1].preStopGap

\* C2: in the returned list the records with _tiedTo are as many as those
\* with _tiedFrom, and each _tiedTo record is directly followed by its
\* _tiedFrom partner.
C2_TiePairing ==
    Returned =>
        /\ Cardinality({i \in Records : phonemeList[i].tiedTo})
             = Cardinality({i \in Records : phonemeList[i].tiedFrom})
        /\ \A i \in Records :
              phonemeList[i].tiedTo =>
                  i < Len(phonemeList) /\ phonemeList[i + 1].tiedFrom

\* the next phoneme record after i is a vowel
OnsetOfVowel(i) ==
    RealAfter(i) /= {} /\ phonemeList[SetMin(RealAfter(i))].isVowel

C7_LengthenedExcludesTie ==
    Returned =>
        \A i \in Records :
            phonemeList[i].lengthened =>
                ~phonemeList[i].tiedTo /\ ~phonemeList[i].tiedFrom

\* C8: in the returned list a record has _stress > 0 only if it carries
\* _syllableStart, and inserted gap and aspiration records carry no _stress.
C8_StressOnlyOnSyllableStart ==
    Returned =>
        \A i \in Records :
            /\ phonemeList[i].stress > 0 => phonemeList[i].syllableStart
            /\ Inserted(phonemeList[i]) => phonemeList[i].stress = 0

\* C8 witness: the stress of a marker written before a vowel landed on the
\* onset consonant before it, in a list that also holds an inserted record.
C8_Witness ==
    /\ Returned
    /\ \E i \in Records :
          /\ phonemeList[i].stress > 0
          /\ ~phonemeList[i].isVowel
          /\ ~phonemeList[i].wordStart
          /\ i > 1 /\ phonemeList[i - 1].preStopGap
          /\ i + 1 \in Records /\ phonemeList[i + 1].postStopAspiration

\* a space lies in the text strictly between positions a and b
SpaceBetween(a, b) == \E k \in (a + 1)..(b - 1) : ipaText[k] = " "

\* C9: in the returned list every record with _wordStart carries
\* _syllableStart, and the record marked _wordStart is exactly the first
\* phoneme record after the start of the text and after each space.
C9_WordStart ==
    Returned =>
        \A i \in Records :
            /\ phonemeList[i].wordStart => phonemeList[i].syllableStart
            /\ Inserted(phonemeList[i]) => ~phonemeList[i].wordStart
            /\ ~Inserted(phonemeList[i]) =>
                  (phonemeList[i].wordStart <=>
                      \/ RealBefore(i) = {}
                      \/ SpaceBetween(phonemeList[SetMax(RealBefore(i))].src,
                                      phonemeList[i].src))

\* C9 witness: a second word starts after a space, and its first record
\* follows an inserted aspiration record.
C9_Witness ==
    /\ Returned
    /\ \E i \in Records :
          /\ phonemeList[i].wordStart
          /\ i > 1 /\ phonemeList[i - 1].postStopAspiration

\* ------------------------------------------------------------ normalizeIPA
\* str.replace(k, v): the occurrences of k, left to right, not overlapping
RECURSIVE Replace(_, _, _)
Replace(text, k, v) ==
    IF Len(text) < Len(k) THEN text
    ELSE IF SubSeq(text, 1, Len(k)) = k
         THEN v \o Replace(SubSeq(text, Len(k) + 1, Len(text)), k, v)
         ELSE <<text[1]>> \o Replace(SubSeq(text, 2, Len(text)), k, v)

\* text.replace(k1, v1).replace(k2, v2)... for a sequence of <<k, v>> pairs
\* (no key is empty, so an empty text stays empty)
RECURSIVE ReplaceAll(_, _, _)
ReplaceAll(text, pairs, n) ==
    IF text = <<>> \/ n > Len(pairs) THEN text
    ELSE ReplaceAll(Replace(text, pairs[n][1], pairs[n][2]), pairs, n + 1)

Whitespace == {" ", "\t", "\n", "\r"}

\* str.strip()
RECURSIVE LStrip(_)
LStrip(text) ==
    IF text /= <<>> /\ text[1] \in Whitespace THEN LStrip(Tail(text)) ELSE text
RECURSIVE RStrip(_)
RStrip(text) ==
    IF text /= <<>> /\ text[Len(text)] \in Whitespace
    THEN RStrip(SubSeq(text, 1, Len(text) - 1)) ELSE text
Strip(text) == RStrip(LStrip(text))

\* re.sub(r"\s+", " ", text)
RECURSIVE CollapseWhitespace(_)
CollapseWhitespace(text) ==
    IF text = <<>> THEN <<>>
    ELSE IF text[1] \in Whitespace
         THEN <<" ">> \o CollapseWhitespace(LStrip(text))
         ELSE <<text[1]>> \o CollapseWhitespace(Tail(text))

\* re.sub(r'(^|\s)R', r'\1x', text) of line 342
WordInitialR(text) ==
    [i \in 1..Len(text) |->
        IF text[i] = "R" /\ (i = 1 \/ text[i - 1] \in Whitespace)
        THEN "x" ELSE text[i]]

\* d[k] = v on a dict kept in insertion order: a key already present keeps
\* its place
DictSet(d, k, v) ==
    IF \E i \in 1..Len(d) : d[i][1] = k
    THEN [i \in 1..Len(d) |-> IF d[i][1] = k THEN <<k, v>> ELSE d[i]]
    ELSE Append(d, <<k, v>>)

\* d.update(e), e in its own order
RECURSIVE DictUpdate(_, _, _)
DictUpdate(d, e, n) ==
    IF n > Len(e) THEN d
    ELSE DictUpdate(DictSet(d, e[n][1], e[n][2]), e, n + 1)

\* d with the entries e set when cond holds
SetIf(cond, d, e) == IF cond THEN DictUpdate(d, e, 1) ELSE d

InData(k) == k \in DataKeys

\* the flags of lines 106-127, from the normalized tag
IsEnglish(lang) == StartsWith(lang, <<"e", "n">>)
IsNonRhoticEnglish(lang) ==
    IsEnglish(lang) /\ ( \/ lang = <<"e", "n">>
                         \/ StartsWith(lang, <<"e", "n", "-", "g", "b">>)
                         \/ StartsWith(lang, <<"e", "n", "-", "u", "k">>) )
IsRhoticEnglish(lang) == IsEnglish(lang) /\ ~IsNonRhoticEnglish(lang)
IsHungarian(lang) == StartsWith(lang, <<"h", "u">>)
IsPolish(lang) == StartsWith(lang, <<"p", "l">>)
IsPortuguese(lang) == StartsWith(lang, <<"p", "t">>)
IsFrench(lang) == StartsWith(lang, <<"f", "r">>)
IsGerman(lang) == StartsWith(lang, <<"d", "e">>)
IsDanish(lang) == StartsWith(lang, <<"d", "a">>)
IsRomanian(lang) == StartsWith(lang, <<"r", "o">>)

\* lines 131-148: utility codes, separators, stress and length mnemonics
Cleanup(text) ==
    LET cu1 == ReplaceAll(text,
                << <<<<"tie_below">>, <<"tie">>>>,
                   <<<<"[">>, <<>>>>, <<<<"]">>, <<>>>>, <<<<"(">>, <<>>>>,
                   <<<<")">>, <<>>>>, <<<<"{">>, <<>>>>, <<<<"}">>, <<>>>>,
                   <<<<"/">>, <<>>>>, <<<<"\\">>, <<>>>>,
                   <<<<"|", "|">>, <<" ">>>>, <<<<"|">>, <<>>>>,
                   <<<<"%">>, <<>>>>, <<<<"=">>, <<>>>>, <<<<"!">>, <<>>>>,
                   <<<<"_", ":">>, <<" ">>>>, <<<<"_">>, <<" ">>>>,
                   <<<<"-">>, <<>>>> >>, 1)
    IN ReplaceAll(Strip(cu1),
                << <<<<"'">>, <<"pri">>>>, <<<<",">>, <<"sec">>>>,
                   <<<<":">>, <<"long">>>> >>, 1)

\* lines 153-171: Portuguese nasalization
PortugueseNasals(text) ==
    ReplaceAll(text,
      << <<<<"&", "U", "~">>, <<"a_tilde", "smallcap_u">>>>,
         <<<<"U", "~">>, <<"smallcap_u">>>>,
         <<<<"&", "~">>, <<"a_tilde">>>>,
         <<<<"a", "~">>, <<"a_tilde">>>>,
         <<<<"o", "~">>, <<"o_tilde">>>>,
         <<<<"u", "~">>, <<"u_tilde">>>>,
         <<<<"e", "~">>, <<"e_tilde">>>>,
         <<<<"i", "~">>, <<"i_tilde">>>>,
         <<<<"turned_a", "comb_tilde", "upsilon", "comb_tilde">>,
           <<"a_tilde", "smallcap_u">>>>,
         <<<<"turned_a", "comb_tilde">>, <<"a_tilde">>>>,
         <<<<"o", "comb_tilde">>, <<"o_tilde">>>>,
         <<<<"u", "comb_tilde">>, <<"u_tilde">>>>,
         <<<<"upsilon", "comb_tilde">>, <<"smallcap_u">>>>,
         <<<<"e", "comb_tilde">>, <<"e_tilde">>>>,
         <<<<"i", "comb_tilde">>, <<"i_tilde">>>> >>, 1)

\* lines 175-177: diacritics that are not modelled
DropDiacritics(text) ==
    ReplaceAll(text, << <<<<"sup_j">>, <<>>>>, <<<<"comb_tilde">>, <<>>>>,
                        <<<<"~">>, <<>>>> >>, 1)

\* lines 180-215: the multi-character map as first written
MultiBase(lang) ==
    LET reduced == IF IsEnglish(lang) /\ IsRhoticEnglish(lang)
                   THEN <<"smallcap_i_stroke">> ELSE <<"small_cap_i">>
    IN
    << <<<<"*", "*">>, <<"fishhook_r">>>>,
       <<<<"*">>, <<"fishhook_r">>>>,
       <<<<"t", "esh">>, <<"t", "tie", "esh">>>>,
       <<<<"d", "ezh">>, <<"d", "tie", "ezh">>>>,
       <<<<"t", "c_curl">>, <<"t", "tie", "c_curl">>>>,
       <<<<"d", "z_curl">>, <<"d", "tie", "z_curl">>>>,
       <<<<"t", "tie", "S">>, <<"t", "tie", "esh">>>>,
       <<<<"d", "tie", "Z">>, <<"d", "tie", "ezh">>>>,
       <<<<"t", "s">>, <<"t", "tie", "s">>>>,
       <<<<"d", "z">>, <<"d", "tie", "z">>>>,
       <<<<"S", ";">>, <<"c_curl">>>>,
       <<<<"Z", ";">>, <<"z_curl">>>>,
       <<<<"t", "s", ";">>, <<"t", "tie", "c_curl">>>>,
       <<<<"d", "z", ";">>, <<"d", "tie", "z_curl">>>>,
       <<<<"n", "^">>, <<"n_hook">>>>,
       <<<<"l", "^">>, <<"turned_y">>>>,
       <<<<"l", "j">>, IF IsPortuguese(lang) THEN <<"turned_y">> ELSE <<"l", "j">>>>,
       <<<<"R", "R", "2">>, <<"r">>>>,
       <<<<"R", "2">>, <<"r">>>>,
       <<<<"I", "2">>, <<"small_cap_i">>>>,
       <<<<"I", "#">>, reduced>>,
       <<<<"I", "2", "#">>, reduced>>,
       <<<<"e", "#">>, <<"open_e">>>>,
       <<<<"@", "L">>, <<"schwa", "l">>>> >>

\* lines 219-335: the language-conditional entries, in the order written
Multi(lang) ==
    LET rhotic == IsRhoticEnglish(lang)
        ichLaut == IF InData(<<"c_cedilla">>) THEN <<"c_cedilla">> ELSE <<"x">>
        thought == IF InData(<<"O">>) THEN <<"O", "long">> ELSE <<"open_o", "long">>
        m0 == MultiBase(lang)
        m1 == SetIf(IsGerman(lang), m0, << <<<<"C">>, ichLaut>> >>)
        m2 == SetIf(IsPortuguese(lang), m1,
                << <<<<"r", "r">>, <<"x">>>>,
                   <<<<"a", "I">>, <<"a", "tie", "i">>>>,
                   <<<<"e", "I">>, <<"e", "tie", "i">>>>,
                   <<<<"o", "I">>, <<"o", "tie", "i">>>>,
                   <<<<"a", "U">>, <<"a", "tie", "u">>>>,
                   <<<<"e", "U">>, <<"e", "tie", "u">>>>,
                   <<<<"E", "U">>, <<"open_e", "tie", "u">>>>,
                   <<<<"o", "w">>, <<"o", "tie", "u">>>> >>)
        m3 == SetIf(IsHungarian(lang), m2,
                << <<<<"e", "long">>, <<"smallcap_e", "long">>>>,
                   <<<<"A", "long">>, <<"A">>>> >>)
        m4 == DictUpdate(m3,
                << <<<<"t", "S">>, <<"t", "tie", "esh">>>>,
                   <<<<"d", "Z">>, <<"d", "tie", "ezh">>>> >>, 1)
        m5 == SetIf(IsEnglish(lang), m4,
                << <<<<"a", "I">>, <<"alpha", "tie", "small_cap_i">>>>,
                   <<<<"a", "U">>, <<"alpha", "tie", "upsilon">>>>,
                   <<<<"O", "I">>, <<"open_o", "tie", "small_cap_i">>>>,
                   <<<<"a", "a">>, IF rhotic THEN <<"ae">> ELSE <<"alpha", "long">>>>,
                   <<<<"o", "U">>, IF rhotic THEN <<"o", "tie", "upsilon">>
                                             ELSE <<"schwa", "tie", "upsilon">>>>,
                   <<<<"e", "I">>, IF rhotic THEN <<"e", "tie", "i">>
                                             ELSE <<"e", "tie", "small_cap_i">>>> >>)
        m6 == SetIf(IsEnglish(lang) /\ rhotic, m5,
                << <<<<"t", "#">>, <<"fishhook_r">>>>,
                   <<<<"d", "#">>, <<"fishhook_r">>>>,
                   <<<<"rev_open_e", "long">>, <<"rev_open_e_hook", "long">>>>,
                   <<<<"rev_open_e">>, <<"rev_open_e_hook">>>> >>)
        m7 == SetIf(IsEnglish(lang) /\ rhotic, m6,
                << <<<<"3", "long">>, <<"rev_open_e_hook", "long">>>>,
                   <<<<"3">>, <<"schwa_hook">>>>,
                   <<<<"A", "@">>, <<"alpha", "turned_r">>>>,
                   <<<<"O", "@">>, <<"open_o", "long", "turned_r">>>>,
                   <<<<"o", "@">>, <<"open_o", "long", "turned_r">>>>,
                   <<<<"i", "@", "3">>, <<"small_cap_i", "turned_r">>>>,
                   <<<<"i", "@">>, <<"small_cap_i", "turned_r">>>>,
                   <<<<"e", "@">>, <<"open_e", "turned_r">>>> >>)
        m8 == SetIf(IsEnglish(lang) /\ ~rhotic, m7,
                << <<<<"3", "long">>, <<"rev_open_e", "long">>>>,
                   <<<<"3">>, <<"schwa">>>>,
                   <<<<"A", "@">>, <<"alpha", "long">>>>,
                   <<<<"O", "@">>, thought>>,
                   <<<<"o", "@">>, thought>>,
                   <<<<"i", "@", "3">>, <<"small_cap_i", "schwa">>>>,
                   <<<<"i", "@">>, <<"small_cap_i", "schwa">>>>,
                   <<<<"e", "@">>, <<"open_e", "schwa">>>> >>)
    IN SetIf(IsGerman(lang), m8,
                << <<<<"turned_a">>, <<"turned_a">>>>,
                   <<<<"turned_a", "nonsyllabic">>, <<"turned_a">>>>,
                   <<<<"R", "2">>, <<"turned_a">>>>,
                   <<<<"@", "2">>, <<"turned_a">>>> >>)

\* sorted(multi, key=len, reverse=True): longest keys first, keys of one
\* length in insertion order
KeyLenIs(n, e) == Len(e[1]) = n
RECURSIVE SortedByKeyLen(_, _)
SortedByKeyLen(d, n) ==
    IF n = 0 THEN <<>>
    ELSE LET Is(e) == KeyLenIs(n, e)
         IN SelectSeq(d, Is) \o SortedByKeyLen(d, n - 1)
MaxKeyLen(d) == IF d = <<>> THEN 0
                ELSE SetMax({Len(d[i][1]) : i \in 1..Len(d)})
MultiOrder(d) == SortedByKeyLen(d, MaxKeyLen(d))

\* lines 336-351: the map applied to the text, then the stray '2' dropped
ApplyMulti(text, lang) ==
    LET am1 == IF IsGerman(lang)
              THEN Replace(text, <<"turned_a", "nonsyllabic">>, <<"turned_a">>)
              ELSE text
        am2 == IF IsPortuguese(lang) THEN WordInitialR(am1) ELSE am1
        am3 == ReplaceAll(am2, MultiOrder(Multi(lang)), 1)
    IN Replace(am3, <<"2">>, <<>>)

\* c if the table has it, else the approximation
Supported(c, fallback) == IF InData(<<c>>) THEN <<c>> ELSE fallback

\* lines 354-444: the single-character map, in insertion order
AsciiMap(lang) ==
    LET pt == IsPortuguese(lang)
        a0 == << <<<<"@">>, <<"schwa">>>>,
                 <<<<"E">>, <<"open_e">>>>,
                 <<<<"O">>, IF pt /\ InData(<<"smallcap_open_o">>)
                            THEN <<"smallcap_open_o">>
                            ELSE IF IsEnglish(lang) /\ IsNonRhoticEnglish(lang)
                                    /\ InData(<<"O">>)
                                 THEN <<"O">> ELSE <<"open_o">>>>,
                 <<<<"V">>, <<"turned_v">>>>,
                 <<<<"U">>, IF pt THEN <<"u">> ELSE <<"upsilon">>>>,
                 <<<<"I">>, IF pt THEN <<"i">> ELSE <<"small_cap_i">>>>,
                 <<<<"J">>, <<"j">>>>,
                 <<<<"?">>, Supported("glottal", <<>>)>>,
                 <<<<"N">>, <<"eng">>>>,
                 <<<<"T">>, <<"theta">>>>,
                 <<<<"D">>, <<"eth">>>>,
                 <<<<"B">>, <<"b">>>>,
                 <<<<"Q">>, <<"g">>>>,
                 <<<<"x">>, IF IsGerman(lang) THEN <<"x">> ELSE <<"h">>>>,
                 <<<<"&">>, <<"turned_a">>>>,
                 <<<<"Y">>, <<"o_slash">>>>,
                 <<<<"W">>, <<"oe">>>> >>
        a1 == SetIf(pt, a0, << <<<<"y">>, <<"j">>>> >>)
        a2 == SetIf(IsHungarian(lang), a1, << <<<<"a">>, <<"smallcap_a">>>> >>)
        a3 == DictUpdate(a2,
                << <<<<"A">>, IF IsHungarian(lang) THEN <<"sideways_open_o">>
                                                   ELSE <<"alpha">>>>,
                   <<<<"S">>, <<"esh">>>>,
                   <<<<"Z">>, <<"ezh">>>> >>, 1)
        a4 == SetIf(IsPolish(lang), a3, << <<<<"R">>, <<"r">>>> >>)
        a5 == SetIf(pt, a4, << <<<<"R">>, <<"fishhook_r">>>> >>)
        a6 == SetIf(IsPolish(lang), a5,
                << <<<<"R">>, <<"r">>>>, <<<<"y">>, <<"i_stroke">>>> >>)
        a7 == SetIf(IsRomanian(lang), a6, << <<<<"y">>, <<"i_stroke">>>> >>)
        a8 == SetIf(IsDanish(lang), a7, << <<<<"R">>, Supported("inv_R", <<"r">>)>> >>)
        a9 == SetIf(IsGerman(lang) /\ InData(<<"turned_a">>), a8,
                << <<<<"3">>, <<"turned_a">>>> >>)
        a10 == SetIf(IsGerman(lang), a9,
                << <<<<"C">>, Supported("c_cedilla", <<"x">>)>> >>)
    IN DictSet(a10, <<"0">>,
               IF IsEnglish(lang) /\ IsRhoticEnglish(lang)
               THEN <<"alpha">> ELSE <<"turned_alpha">>)

\* lines 446-462: the single-character map applied, late dialect rewrites,
\* leftover modifiers
ApplyAscii(text, lang) ==
    LET aa1 == ReplaceAll(text, AsciiMap(lang), 1)
        aa2 == IF IsEnglish(lang) /\ IsNonRhoticEnglish(lang) /\ InData(<<"O">>)
              THEN Replace(aa1, <<"open_o">>, <<"O">>) ELSE aa1
        aa3 == IF IsPortuguese(lang) /\ InData(<<"smallcap_open_o">>)
              THEN Replace(aa2, <<"open_o">>, <<"smallcap_open_o">>) ELSE aa2
    IN ReplaceAll(aa3, << <<<<";">>, <<>>>>, <<<<"^">>, <<>>>> >>, 1)

\* lines 466-492: syllabic l, reduced vowel, rhotic vowels, r
IpaFallbacks(text, lang) ==
    LET schwaR == Supported("schwa_hook", <<"schwa", "turned_r">>)
        if1 == ReplaceAll(text,
                << <<<<"l", "syllabic">>, <<"schwa", "l">>>>,
                   <<<<"l_tilde", "syllabic">>, <<"schwa", "l">>>>,
                   <<<<"schwa", "tie", "l">>, <<"schwa", "l">>>>,
                   <<<<"schwa", "tie", "l">>, <<"schwa", "l">>>>,
                   <<<<"upsilon", "tie", "l">>, <<"schwa", "l">>>> >>, 1)
        if2 == IF ~InData(<<"smallcap_i_stroke">>)
              THEN Replace(if1, <<"smallcap_i_stroke">>, <<"small_cap_i">>) ELSE if1
        if3 == ReplaceAll(if2,
                << <<<<"rhotic_hook">>, <<"turned_r">>>>,
                   <<<<"turned_r", "syllabic">>, schwaR>>,
                   <<<<"r", "syllabic">>, schwaR>> >>, 1)
        if4 == IF ~InData(<<"schwa_hook">>)
              THEN Replace(if3, <<"schwa_hook">>, <<"schwa", "turned_r">>) ELSE if3
        if5 == IF ~InData(<<"rev_open_e_hook">>)
              THEN Replace(if4, <<"rev_open_e_hook">>, <<"rev_open_e", "turned_r">>)
              ELSE if4
        if6 == IF IsEnglish(lang) THEN Replace(if5, <<"r">>, <<"turned_r">>) ELSE if5
    IN IF (~IsEnglish(lang)) /\ (IsFrench(lang) \/ IsGerman(lang)) /\ InData(<<"inv_R">>)
       THEN Replace(if6, <<"r">>, <<"inv_R">>) ELSE if6

\* lines 495-518: cross-language approximations, in insertion order
Repl(lang) ==
    << <<<<"c_curl">>, Supported("c_curl", <<"esh">>)>>,
       <<<<"z_curl">>, Supported("z_curl", <<"ezh">>)>>,
       <<<<"s_hook">>, Supported("s_hook", <<"esh">>)>>,
       <<<<"z_hook">>, Supported("z_hook", <<"ezh">>)>>,
       <<<<"t", "tie", "c_curl">>,
         IF InData(<<"t", "tie", "c_curl">>) THEN <<"t", "tie", "c_curl">>
                                             ELSE <<"t", "tie", "esh">>>>,
       <<<<"d", "tie", "z_curl">>,
         IF InData(<<"d", "tie", "z_curl">>) THEN <<"d", "tie", "z_curl">>
                                             ELSE <<"d", "tie", "ezh">>>>,
       <<<<"beta">>, <<"b">>>>,
       <<<<"gamma">>, <<"g">>>>,
       <<<<"x">>, IF IsGerman(lang) /\ InData(<<"x">>) THEN <<"x">> ELSE <<"h">>>>,
       <<<<"j_tail">>, <<"j">>>>,
       <<<<"turned_y">>, Supported("turned_y", <<"l">>)>>,
       <<<<"c">>, <<"k">>>>,
       <<<<"j_stroke">>, <<"g">>>>,
       <<<<"n_hook">>, Supported("n_hook", <<"n">>)>>,
       <<<<"reversed_e">>, Supported("reversed_e", <<"schwa">>)>>,
       <<<<"barred_o">>, Supported("barred_o", Supported("o_slash", <<"o">>))>>,
       <<<<"rams_horn">>, Supported("rams_horn", <<"turned_v">>)>> >>

\* lines 524-528: precomposed nasal vowels
PlainNasals(text, lang) ==
    IF IsPortuguese(lang) /\ InData(<<"a_tilde">>) /\ InData(<<"o_tilde">>)
           /\ InData(<<"u_tilde">>)
    THEN text
    ELSE ReplaceAll(text,
           << <<<<"a_tilde">>, <<"a">>>>, <<<<"e_tilde">>, <<"e">>>>,
              <<<<"i_tilde">>, <<"i">>>>, <<<<"o_tilde">>, <<"o">>>>,
              <<<<"u_tilde">>, <<"u">>>> >>, 1)

\* lines 519-539: approximations, nasal vowels, English TRAP, leftovers
Finish(text, lang) ==
    LET fi1 == ReplaceAll(text, Repl(lang), 1)
        fi2 == PlainNasals(fi1, lang)
        fi3 == IF IsEnglish(lang) THEN Replace(fi2, <<"a">>, <<"ae">>) ELSE fi2
        fi4 == Replace(fi3, <<"#">>, <<>>)
    IN Strip(CollapseWhitespace(fi4))

\* normalizeIPA(text, language) for a text that is a str
normalizeIPA(text, tag) ==
    LET nlang == NormLang(tag)
        n1 == Cleanup(text)
        n2 == IF IsPortuguese(nlang) THEN PortugueseNasals(n1) ELSE n1
        n3 == DropDiacritics(n2)
        n4 == ApplyMulti(n3, nlang)
        n5 == ApplyAscii(n4, nlang)
        n6 == IpaFallbacks(n5, nlang)
    IN Finish(n6, nlang)

\* ----------------------------------------------------- correctHPhonemes
\* the previous neighbour preferred to the next one
CorrectH_PreviousFirst(list, index) ==
    LET hcur == list[index]
        hprev == IF index > 1 THEN <<list[index - 1]>> ELSE <<>>
    IN IF hcur.copyAdjacent /\ hprev /= <<>>
       THEN [hcur EXCEPT !.acoustic =
                [k \in (DOMAIN hcur.acoustic) \cup (DOMAIN hprev[1].acoustic) |->
                    IF k \in DOMAIN hcur.acoustic THEN hcur.acoustic[k]
                    ELSE hprev[1].acoustic[k]]]
       ELSE hcur
\* lines 648-653 for the record at index
CorrectH(list, index) ==
    LET hcur == list[index]
        hprev == IF index > 1 THEN <<list[index - 1]>> ELSE <<>>
        hnext == IF index < Len(list) THEN <<list[index + 1]>> ELSE <<>>
        adjacent == IF hnext /= <<>> /\ ~hnext[1].silence THEN hnext ELSE hprev
    IN IF hcur.copyAdjacent /\ adjacent /= <<>>
       THEN [hcur EXCEPT !.acoustic =
                [k \in (DOMAIN hcur.acoustic) \cup (DOMAIN adjacent[1].acoustic) |->
                    IF k \in DOMAIN hcur.acoustic THEN hcur.acoustic[k]
                    ELSE adjacent[1].acoustic[k]]]
       ELSE hcur

\* the loop of lines 644-653; a record is corrected in place, so its
\* neighbours are read as the loop has left them
RECURSIVE CorrectHLoop(_, _)
CorrectHLoop(list, index) ==
    IF index > Len(list) THEN list
    ELSE CorrectHLoop([list EXCEPT ![index] = CorrectH(list, index)], index + 1)

correctHPhonemes(list) == CorrectHLoop(list, 1)

\* ------------------------------------------------------------- numbers
\* a number is a fraction <<numerator, denominator>> in lowest terms with a
\* positive denominator
RECURSIVE Gcd(_, _)
Gcd(a, b) == IF b = 0 THEN a ELSE Gcd(b, a % b)
Abs(a) == IF a < 0 THEN -a ELSE a
Frac(n, d) ==
    LET g == Gcd(Abs(n), Abs(d))
        sgn == IF d < 0 THEN -1 ELSE 1
    IN <<(sgn * n) \div g, (sgn * d) \div g>>
Num(n) == <<n, 1>>
FMul(x, y) == Frac(x[1] * y[1], x[2] * y[2])
\* the quotient cut down to a whole number
FDiv_Floor(x, y) == Num((x[1] * y[2]) \div (x[2] * y[1]))
FDiv(x, y) == Frac(x[1] * y[2], x[2] * y[1])     \* y is not zero
FAdd(x, y) == Frac(x[1] * y[2] + y[1] * x[2], x[2] * y[2])
FLess(x, y) == x[1] * y[2] < y[1] * x[2]
FMin(x, y) == IF FLess(y, x) THEN y ELSE x
IsZero(x) == x[1] = 0

\* -------------------------------------------------- calculatePhonemeTimes
\* _STRESS_SLOWDOWN_BY_LANG.get(key): <<primaryDiv, secondaryDiv>>, or <<>>
StressSlowdownByLang(key) ==
    IF key \in { <<"e","n">>, <<"e","n","-","u","s">>, <<"e","n","-","g","b">>,
                 <<"e","n","-","u","k">>, <<"e","n","-","c","a">>,
                 <<"e","n","-","u","s","-","n","y","c">> }
    THEN <<Frac(14, 10), Frac(11, 10)>>
    ELSE IF key \in { <<"h","u">>, <<"p","l">>, <<"e","s">>, <<"p","t">>,
                      <<"f","r">>, <<"d","e">>, <<"i","t">>, <<"d","a">>,
                      <<"r","o">> }
    THEN <<Frac(125, 100), Frac(107, 100)>>
    ELSE <<>>

StressSlowdownDefault == <<Frac(14, 10), Frac(11, 10)>>

\* the whole tag as the only key tried
get_stress_slowdown_WholeTag(tag) ==
    IF StressSlowdownByLang(NormLang(tag)) = <<>> THEN StressSlowdownDefault
    ELSE StressSlowdownByLang(NormLang(tag))

\* the keys '-'.join(parts[:i]) of line 85 are the prefixes of the tag that
\* end before a '-' or at the end of the tag; the longest known one wins
get_stress_slowdown(tag) ==
    LET lang == NormLang(tag)
        cuts == {n \in 0..Len(lang) :
                    /\ n = Len(lang) \/ lang[n + 1] = "-"
                    /\ StressSlowdownByLang(SubSeq(lang, 1, n)) /= <<>>}
    IN IF lang = <<>> \/ cuts = {} THEN StressSlowdownDefault
       ELSE StressSlowdownByLang(SubSeq(lang, 1, SetMax(cuts)))

\* a record with one more key, or with that key overwritten
SetField(r, k, v) == [x \in (DOMAIN r) \cup {k} |-> IF x = k THEN v ELSE r[x]]

\* lines 679-728: <<phonemeDuration, phonemeFadeDuration>> of the phoneme at
\* index, for a speed that is not zero
BaseDurations(list, index, speedNow, syllableStress, isEnglish) ==
    LET phoneme == list[index]
        last == IF index > 1 THEN <<list[index - 1]>> ELSE <<>>
        nxt == IF Len(list) > index THEN <<list[index + 1]>> ELSE <<>>
        Per(n) == FDiv(Num(n), speedNow)
        fade0 == Per(10)
        short == Frac(1, 1000)
    IN IF phoneme.preStopGap THEN <<Per(41), fade0>>
       ELSE IF phoneme.postStopAspiration THEN <<Per(20), fade0>>
       ELSE IF phoneme.isTap \/ phoneme.isTrill
       THEN IF phoneme.isTrill THEN <<Per(22), short>>
            ELSE <<FMin(Per(14), Num(14)), short>>
       ELSE IF phoneme.isStop THEN <<FMin(Per(6), Num(6)), short>>
       ELSE IF phoneme.isAfricate THEN <<Per(24), short>>
       ELSE IF ~phoneme.isVoiced THEN <<Per(45), fade0>>
       ELSE IF phoneme.isVowel
       THEN LET fade1 == IF last /= <<>> /\ (last[1].isLiquid \/ last[1].isSemivowel)
                         THEN Per(25) ELSE fade0
            IN IF phoneme.tiedTo
               THEN IF isEnglish /\ phoneme.char = "alpha"
                    THEN <<Per(42), fade1>> ELSE <<Per(40), fade1>>
               ELSE IF phoneme.tiedFrom
               THEN IF /\ isEnglish
                       /\ phoneme.char \in {"small_cap_i", "upsilon"}
                       /\ last /= <<>>
                       /\ last[1].tiedTo
                       /\ last[1].char = "alpha"
                    THEN <<Per(24), Per(18)>>
                    ELSE <<Per(20), Per(20)>>
               ELSE IF /\ syllableStress = 0
                       /\ ~phoneme.syllableStart
                       /\ nxt /= <<>>
                       /\ ~nxt[1].wordStart
                       /\ (nxt[1].isLiquid \/ nxt[1].isNasal)
               THEN IF nxt[1].isLiquid THEN <<Per(30), fade1>>
                    ELSE <<Per(40), fade1>>
               ELSE <<Per(60), fade1>>
       ELSE IF phoneme.isLiquid \/ phoneme.isSemivowel
       THEN <<Per(30), Per(20)>>
       ELSE <<Per(30), fade0>>

\* lines 733-749: the language and length adjustments
AdjustDurations(list, index, speedNow, lang, isEnglish, d) ==
    LET phoneme == list[index]
        nxt == IF Len(list) > index THEN <<list[index + 1]>> ELSE <<>>
        isHu == StartsWith(lang, <<"h","u">>)
        d1 == IF /\ isHu
                 /\ phoneme.isVowel
                 /\ phoneme.char = "sideways_open_o"
                 /\ ~phoneme.lengthened
              THEN <<FMul(d[1], Frac(85, 100)), d[2]>> ELSE d
        d2 == IF /\ isEnglish
                 /\ phoneme.isVowel
                 /\ phoneme.char = "u"
                 /\ phoneme.lengthened
                 /\ (nxt = <<>> \/ nxt[1].wordStart)
              THEN <<FMul(d1[1], Frac(80, 100)),
                     FMin(d1[2], FDiv(Num(14), speedNow))>>
              ELSE d1
    IN IF phoneme.lengthened
       THEN IF isHu THEN <<FMul(d2[1], Frac(13, 10)), d2[2]>>
            ELSE <<FMul(d2[1], Frac(105, 100)), d2[2]>>
       ELSE d2

\* one iteration of the loop of lines 669-753 for the phoneme at index:
\* raised is "ZeroDivisionError" when line 679 divides by a zero speed
TimeStep(st, index, baseSpeed, tag) ==
    LET lang == NormLang(tag)
        isEnglish == StartsWith(lang, <<"e","n">>)
        divs == get_stress_slowdown(tag)
        phoneme == st.list[index]
        stress1 == IF phoneme.syllableStart THEN phoneme.stress
                   ELSE st.syllableStress
        speed1 == IF ~phoneme.syllableStart THEN st.speed
                  ELSE IF phoneme.stress = 1 THEN FDiv(baseSpeed, divs[1])
                  ELSE IF phoneme.stress /= 0 THEN FDiv(baseSpeed, divs[2])
                  ELSE baseSpeed
    IN IF IsZero(speed1)
       THEN [st EXCEPT !.raised = "ZeroDivisionError",
                       !.speed = speed1, !.syllableStress = stress1]
       ELSE LET d == AdjustDurations(st.list, index, speed1, lang, isEnglish,
                        BaseDurations(st.list, index, speed1, stress1, isEnglish))
                timed == SetField(SetField(phoneme, "duration", d[1]),
                                  "fadeDuration", d[2])
            IN [st EXCEPT !.list[index] = timed,
                          !.speed = speed1, !.syllableStress = stress1]

RECURSIVE TimeLoop(_, _, _, _)
TimeLoop(st, index, baseSpeed, tag) ==
    IF index > Len(st.list) \/ st.raised /= "none" THEN st
    ELSE TimeLoop(TimeStep(st, index, baseSpeed, tag), index + 1, baseSpeed, tag)

\* the outcome of calculatePhonemeTimes: the list as the call leaves it and
\* the exception it raised, if any
calculatePhonemeTimes(list, baseSpeed, tag) ==
    LET end == TimeLoop([list |-> list, speed |-> baseSpeed, syllableStress |-> 0,
                         raised |-> "none"], 1, baseSpeed, tag)
    IN [list |-> end.list, raised |-> end.raised]

\* ----------------------------------------------------------- applyPitchPath
\* A pitch is kept as the path it lies on and the place on it:
\* [from, to, ratio] stands for startPitch + (endPitch - startPitch) * ratio,
\* with startPitch and endPitch computed from the percentages from and to
\* by lines 756-757.  Indices are those of the code (the first record is 0).
PitchAt(startPercent, endPercent, ratio) ==
    [from |-> startPercent, to |-> endPercent, ratio |-> ratio]

\* lines 758-762
RECURSIVE VoicedDuration_AllRecords(_, _, _)
RECURSIVE VoicedDuration(_, _, _)
\* the durations of all the records of the range, voiced or not
VoicedDuration_AllRecords(list, index, endIndex) ==
    IF index >= endIndex THEN Num(0)
    ELSE FAdd(list[index + 1].duration,
              VoicedDuration_AllRecords(list, index + 1, endIndex))
VoicedDuration(list, index, endIndex) ==
    IF index >= endIndex THEN Num(0)
    ELSE LET rest == VoicedDuration(list, index + 1, endIndex)
         IN IF list[index + 1].isVoiced
            THEN FAdd(list[index + 1].duration, rest) ELSE rest

\* lines 767-774; curRatio is the place of curPitch on the path
RECURSIVE PitchLoop(_, _, _, _, _, _, _, _)
PitchLoop(st, index, endIndex, startPercent, endPercent, voicedDuration, curDuration, curRatio) ==
    IF index >= endIndex \/ st.raised /= "none" THEN st
    ELSE LET phoneme == st.list[index + 1]
             started == SetField(phoneme, "voicePitch",
                                 PitchAt(startPercent, endPercent, curRatio))
         IN IF ~phoneme.isVoiced
            THEN PitchLoop([st EXCEPT !.list[index + 1] =
                                SetField(started, "endVoicePitch",
                                    PitchAt(startPercent, endPercent, curRatio))],
                           index + 1, endIndex, startPercent, endPercent,
                           voicedDuration, curDuration, curRatio)
            ELSE IF IsZero(voicedDuration)
            THEN [st EXCEPT !.list[index + 1] = started,
                            !.raised = "ZeroDivisionError"]
            ELSE LET dur == FAdd(curDuration, phoneme.duration)
                     pitchRatio == FDiv(dur, voicedDuration)
                 IN PitchLoop([st EXCEPT !.list[index + 1] =
                                 SetField(started, "endVoicePitch",
                                     PitchAt(startPercent, endPercent, pitchRatio))],
                              index + 1, endIndex, startPercent, endPercent,
                              voicedDuration, dur, pitchRatio)

applyPitchPath(st, startIndex, endIndex, startPercent, endPercent) ==
    IF st.raised /= "none" THEN st
    ELSE PitchLoop(st, startIndex, endIndex, startPercent, endPercent,
                   VoicedDuration(st.list, startIndex, endIndex), Num(0), Num(0))

\* --------------------------------------------------- calculatePhonemePitches
IntonationKeys == {".", ",", "?", "!"}

intonationParamTable(k) ==
    IF k = "." THEN
        [ preHeadStart |-> 46, preHeadEnd |-> 57, headExtendFrom |-> 4,
          headStart |-> 80, headEnd |-> 50,
          headSteps |-> <<100, 75, 50, 25, 0, 63, 38, 13, 0>>,
          headStressEndDelta |-> -16, headUnstressedRunStartDelta |-> -8,
          headUnstressedRunEndDelta |-> -5,
          nucleus0Start |-> 64, nucleus0End |-> 8,
          nucleusStart |-> 70, nucleusEnd |-> 18,
          tailStart |-> 24, tailEnd |-> 8 ]
    ELSE IF k = "," THEN
        [ preHeadStart |-> 46, preHeadEnd |-> 57, headExtendFrom |-> 4,
          headStart |-> 80, headEnd |-> 60,
          headSteps |-> <<100, 75, 50, 25, 0, 63, 38, 13, 0>>,
          headStressEndDelta |-> -16, headUnstressedRunStartDelta |-> -8,
          headUnstressedRunEndDelta |-> -5,
          nucleus0Start |-> 34, nucleus0End |-> 52,
          nucleusStart |-> 78, nucleusEnd |-> 34,
          tailStart |-> 34, tailEnd |-> 52 ]
    ELSE IF k = "?" THEN
        [ preHeadStart |-> 45, preHeadEnd |-> 56, headExtendFrom |-> 3,
          headStart |-> 75, headEnd |-> 43,
          headSteps |-> <<100, 75, 50, 20, 60, 35, 11, 0>>,
          headStressEndDelta |-> -16, headUnstressedRunStartDelta |-> -7,
          headUnstressedRunEndDelta |-> 0,
          nucleus0Start |-> 34, nucleus0End |-> 68,
          nucleusStart |-> 86, nucleusEnd |-> 21,
          tailStart |-> 34, tailEnd |-> 68 ]
    ELSE
        [ preHeadStart |-> 46, preHeadEnd |-> 57, headExtendFrom |-> 3,
          headStart |-> 90, headEnd |-> 50,
          headSteps |-> <<100, 75, 50, 16, 82, 50, 32, 16>>,
          headStressEndDelta |-> -16, headUnstressedRunStartDelta |-> -9,
          headUnstressedRunEndDelta |-> 0,
          nucleus0Start |-> 92, nucleus0End |-> 4,
          nucleusStart |-> 92, nucleusEnd |-> 80,
          tailStart |-> 76, tailEnd |-> 4 ]

\* clauseType or '.' of line 848: None (and the empty string) give '.'
ClauseKey(clause) == IF clause \in {"None", ""} THEN "." ELSE clause

\* the subscript of line 848 raises KeyError for a key the table lacks
RowLookupRaises(key) == key \notin IntonationKeys

\* a syllable start with any stress
StressedStart_AnyStress(phoneme) == phoneme.syllableStart /\ phoneme.stress /= 0
\* a syllable start with primary stress (lines 852-854, 862-864)
StressedStart(phoneme) == phoneme.syllableStart /\ phoneme.stress = 1

\* lines 849-856: the index of the first primary-stressed syllable start
PreHeadEnd(list) ==
    LET found == {i \in 0..(Len(list) - 1) : StressedStart(list[i + 1])}
    IN IF found = {} THEN Len(list) ELSE SetMin(found)

\* lines 859-868: scanning back from the end down to preHeadEnd, the first
\* primary-stressed syllable start met is nucleusStart, and the earliest
\* syllable start passed on the way is nucleusEnd and tailStart
Regions(list) ==
    LET n == Len(list)
        preHeadEnd == PreHeadEnd(list)
        stressed == {i \in preHeadEnd..(n - 1) : StressedStart(list[i + 1])}
        nucleusStart == IF stressed = {} THEN n ELSE SetMax(stressed)
        passed == {i \in preHeadEnd..(n - 1) :
                      i > nucleusStart /\ list[i + 1].syllableStart}
        tailStart == IF stressed = {} \/ passed = {} THEN n ELSE SetMin(passed)
    IN [ preHeadStart |-> 0, preHeadEnd |-> preHeadEnd,
         nucleusStart |-> nucleusStart, nucleusEnd |-> tailStart,
         tailStart |-> tailStart, tailEnd |-> n ]

\* the n-th value (from 0) of itertools.chain(steps, cycle(steps[extendFrom:]))
StressStartPercentage(row, n) ==
    LET steps == row.headSteps
        extended == Len(steps) - row.headExtendFrom
    IN IF n < Len(steps) THEN steps[n + 1]
       ELSE steps[row.headExtendFrom + 1 + ((n - Len(steps)) % extended)]

\* lines 890-894 of one iteration of the head loop, for a syllable start
\* at index: the stressed stretch that is open is given its path and
\* closed; None is -1 for the two indices and <<>> for stressEndPitch
HeadClose(h, index, row) ==
    IF h.lastHeadStressStart = -1 THEN h
    ELSE LET stressStartPitch ==
                 FAdd(Num(row.headEnd),
                      FMul(Frac(row.headStart - row.headEnd, 100),
                           Num(StressStartPercentage(row, h.used))))
         IN [applyPitchPath(h, h.lastHeadStressStart, index, stressStartPitch,
                            FAdd(stressStartPitch, Num(row.headStressEndDelta)))
             EXCEPT !.used = h.used + 1,
                    !.stressEndPitch =
                        <<FAdd(stressStartPitch, Num(row.headStressEndDelta))>>,
                    !.lastHeadStressStart = -1]

\* lines 895-903 of the same iteration
HeadOpen(h, index, row) ==
    IF h.raised /= "none" THEN h
    ELSE IF h.list[index + 1].stress = 1
    THEN IF h.lastHeadUnstressedRunStart = -1
         THEN [h EXCEPT !.lastHeadStressStart = index]
         ELSE IF h.stressEndPitch = <<>>
         THEN [h EXCEPT !.raised = "TypeError"]
         ELSE [applyPitchPath(h, h.lastHeadUnstressedRunStart, index,
                  FAdd(h.stressEndPitch[1], Num(row.headUnstressedRunStartDelta)),
                  FAdd(h.stressEndPitch[1], Num(row.headUnstressedRunEndDelta)))
               EXCEPT !.lastHeadUnstressedRunStart = -1,
                      !.lastHeadStressStart = index]
    ELSE IF h.lastHeadUnstressedRunStart = -1
    THEN [h EXCEPT !.lastHeadUnstressedRunStart = index]
    ELSE h

\* one iteration of the loop of lines 886-903
HeadStep(h, index, row) ==
    IF index >= Len(h.list) THEN [h EXCEPT !.raised = "IndexError"]
    ELSE IF ~h.list[index + 1].syllableStart THEN h
    ELSE HeadOpen(HeadClose(h, index, row), index, row)

RECURSIVE HeadLoop(_, _, _, _)
HeadLoop(h, index, last, row) ==
    IF index > last \/ h.raised /= "none" THEN h
    ELSE HeadLoop(HeadStep(h, index, row), index + 1, last, row)

\* lines 857-858
PitchPreHead(p, rg, row) ==
    IF rg.preHeadEnd - rg.preHeadStart > 0
    THEN applyPitchPath(p, rg.preHeadStart, rg.preHeadEnd,
                        Num(row.preHeadStart), Num(row.preHeadEnd))
    ELSE p

\* lines 869-871
PitchTail(p, rg, row) ==
    IF rg.tailEnd - rg.tailStart > 0
    THEN applyPitchPath(p, rg.tailStart, rg.tailEnd,
                        Num(row.tailStart), Num(row.tailEnd))
    ELSE p

\* lines 872-876
PitchNucleus(p, rg, row) ==
    IF rg.nucleusEnd - rg.nucleusStart > 0
    THEN IF rg.tailEnd - rg.tailStart > 0
         THEN applyPitchPath(p, rg.nucleusStart, rg.nucleusEnd,
                             Num(row.nucleusStart), Num(row.nucleusEnd))
         ELSE applyPitchPath(p, rg.nucleusStart, rg.nucleusEnd,
                             Num(row.nucleus0Start), Num(row.nucleus0End))
    ELSE p

\* the head loop stopped one index early
PitchHead_StopsBeforeNucleus(p, rg, row) ==
    IF rg.preHeadEnd < rg.nucleusStart /\ p.raised = "none"
    THEN HeadLoop([list |-> p.list, raised |-> "none", used |-> 0,
                   lastHeadStressStart |-> -1,
                   lastHeadUnstressedRunStart |-> -1,
                   stressEndPitch |-> <<>>],
                  rg.preHeadEnd, rg.nucleusStart - 1, row)
    ELSE p
\* lines 877-903
PitchHead(p, rg, row) ==
    IF rg.preHeadEnd < rg.nucleusStart /\ p.raised = "none"
    THEN HeadLoop([list |-> p.list, raised |-> "none", used |-> 0,
                   lastHeadStressStart |-> -1,
                   lastHeadUnstressedRunStart |-> -1,
                   stressEndPitch |-> <<>>],
                  rg.preHeadEnd, rg.nucleusStart, row)
    ELSE p

\* lines 849-903 with the row of the table that line 848 selected
PitchesWithRow(list, row) ==
    PitchHead(
        PitchNucleus(
            PitchTail(
                PitchPreHead([list |-> list, raised |-> "none"],
                             Regions(list), row),
                Regions(list), row),
            Regions(list), row),
        Regions(list), row)

\* the outcome of calculatePhonemePitches: the list as the call leaves it,
\* the key of the row it selected ("None" when the lookup failed) and the
\* exception it raised, if any
PitchOutcome(p, key) == [list |-> p.list, row |-> key, raised |-> p.raised]

calculatePhonemePitches(list, clause) ==
    IF RowLookupRaises(ClauseKey(clause))
    THEN [list |-> list, row |-> "None", raised |-> "KeyError"]
    ELSE PitchOutcome(PitchesWithRow(list, intonationParamTable(ClauseKey(clause))),
                      ClauseKey(clause))

\* ------------------------------------------- normalizeIPA, called and
\* called again on its own result
NormAlphabet == {"t", "s", "S", "2", "#", ";", "^", "a", " ", "pri"}
NormLanguages == {<<>>, <<"e","n","-","u","s">>, <<"h","u">>, <<"p","t">>}

InitNorm ==
    /\ DriverIdle
    /\ pc = "call normalizeIPA"
    /\ ipaText \in Strings(NormAlphabet, MaxNormLen)
    /\ language \in NormLanguages
    /\ phonemeList = <<>>
    /\ normText = <<>>
    /\ renormText = <<>>
    /\ speed = <<1, 1>>
    /\ clauseType = "None"
    /\ intonationParams = "None"
    /\ raised = "none"
    /\ frames = <<>>
    /\ slowdown = <<>>
    /\ pitchCall = <<>>

Normalize ==
    /\ pc = "call normalizeIPA"
    /\ normText' = normalizeIPA(ipaText, language)
    /\ pc' = "normalized"
    /\ UNCHANGED driverVars
    /\ UNCHANGED <<ipaText, language, phonemeList, renormText, speed, clauseType,
                   intonationParams, raised, frames,
                   slowdown, pitchCall>>

NormalizeAgain ==
    /\ pc = "normalized"
    /\ renormText' = normalizeIPA(normText, language)
    /\ pc' = "renormalized"
    /\ UNCHANGED driverVars
    /\ UNCHANGED <<ipaText, language, phonemeList, normText, speed, clauseType,
                   intonationParams, raised, frames,
                   slowdown, pitchCall>>

NextNorm == Normalize \/ NormalizeAgain

SpecNorm == InitNorm /\ [][NextNorm]_vars

\* C3: normalizing the result of normalizeIPA again, with the same language,
\* returns it unchanged
C3_Idempotent == pc = "renormalized" => renormText = normText

\* ------------------------------------------------ generateFramesAndTiming
GenAlphabet == {"a", "t", "l", "h", " ", "pri"}
GenScenarios ==
    { <<"h", "open_e", "pri", "l", "o", "upsilon">>,
      <<"l", "a", "pri", "t", "a", "l", "a", " ", "pri", "l", "a", "t", "a">>,
      <<"pri", "a", "l", "sec", "a", "t", "pri", "a", "h", "a">>,
      <<"alpha">>, <<"A">>,
      <<"a", "h", "t", "h", "a">> }
GenLanguages == {<<>>, <<"e","n","-","u","s">>, <<"h","u">>}
GenSpeeds == {<<0, 1>>, <<-1, 1>>, <<1, 1>>, <<2, 1>>}
GenClauseTypes == {"None", ".", ",", "?", "!", ";", ":"}

InitGen ==
    /\ DriverIdle
    /\ pc = "call generateFramesAndTiming"
    /\ ipaText \in Strings(GenAlphabet, MaxGenLen) \cup GenScenarios
    /\ language \in GenLanguages
    /\ speed \in GenSpeeds
    /\ clauseType \in GenClauseTypes
    /\ phonemeList = <<>>
    /\ normText = <<>>
    /\ renormText = <<>>
    /\ intonationParams = "None"
    /\ raised = "none"
    /\ frames = <<>>
    /\ slowdown = <<>>
    /\ pitchCall = <<>>

\* line 906
GenNormalize ==
    /\ pc = "call generateFramesAndTiming"
    /\ normText' = normalizeIPA(ipaText, language)
    /\ pc' = "line 907"
    /\ UNCHANGED driverVars
    /\ UNCHANGED <<ipaText, language, phonemeList, renormText, speed, clauseType,
                   intonationParams, raised, frames,
                   slowdown, pitchCall>>

\* lines 907-909
GenSegment ==
    /\ pc = "line 907"
    /\ phonemeList' = IPAToPhonemes(normText, language)
    /\ pc' = IF phonemeList' = <<>> THEN "returned" ELSE "line 910"
    /\ UNCHANGED driverVars
    /\ UNCHANGED <<ipaText, language, normText, renormText, speed, clauseType,
                   intonationParams, raised, frames,
                   slowdown, pitchCall>>

\* line 910
GenCorrectH ==
    /\ pc = "line 910"
    /\ phonemeList' = correctHPhonemes(phonemeList)
    /\ pc' = "line 911"
    /\ UNCHANGED driverVars
    /\ UNCHANGED <<ipaText, language, normText, renormText, speed, clauseType,
                   intonationParams, raised, frames,
                   slowdown, pitchCall>>

\* line 911
GenTimes ==
    /\ pc = "line 911"
    /\ LET out == calculatePhonemeTimes(phonemeList, speed, language)
       IN /\ phonemeList' = out.list
          /\ raised' = out.raised
          /\ pc' = IF out.raised = "none" THEN "line 912" ELSE "raised"
    /\ UNCHANGED driverVars
    /\ UNCHANGED <<ipaText, language, normText, renormText, speed, clauseType,
                   intonationParams, frames,
                   slowdown, pitchCall>>

\* line 912
GenPitches ==
    /\ pc = "line 912"
    /\ LET out == calculatePhonemePitches(phonemeList, clauseType)
       IN /\ phonemeList' = out.list
          /\ intonationParams' = out.row
          /\ raised' = out.raised
          /\ pc' = IF out.raised = "none" THEN "line 913" ELSE "raised"
    /\ UNCHANGED driverVars
    /\ UNCHANGED <<ipaText, language, normText, renormText, speed, clauseType,
                   frames,
                   slowdown, pitchCall>>

\* lines 919-922: the frame built from the non-private keys of the record
Frame(phoneme) ==
    [ preFormantGain |-> <<1, 1>>, outputGain |-> <<3, 2>>,
      acoustic |-> phoneme.acoustic,
      pitch |-> [k \in {"voicePitch", "endVoicePitch"} \cap DOMAIN phoneme |->
                    phoneme[k]] ]

\* phoneme.pop of lines 914-915
PopDurations(phoneme) ==
    [k \in (DOMAIN phoneme) \ {"duration", "fadeDuration"} |-> phoneme[k]]

\* a frame for every record, silent ones included
Triple_AlwaysFrame(phoneme) ==
    [ frame |-> <<Frame(phoneme)>>,
      frameDuration |-> phoneme.duration,
      fadeDuration |-> phoneme.fadeDuration ]
\* lines 914-923: the triple yielded for a record; <<>> is None
Triple(phoneme) ==
    [ frame |-> IF phoneme.silence THEN <<>> ELSE <<Frame(phoneme)>>,
      frameDuration |-> phoneme.duration,
      fadeDuration |-> phoneme.fadeDuration ]

\* one iteration of the loop of lines 913-923: the next record is turned
\* into a triple; a pop of a key the record lacks raises KeyError
GenYield ==
    /\ pc = "line 913"
    /\ LET index == Len(frames) + 1
           phoneme == phonemeList[index]
       IN IF {"duration", "fadeDuration"} \subseteq DOMAIN phoneme
          THEN /\ frames' = Append(frames, Triple(phoneme))
               /\ phonemeList' = [phonemeList EXCEPT ![index] = PopDurations(phoneme)]
               /\ raised' = raised
               /\ pc' = IF index = Len(phonemeList) THEN "returned" ELSE "line 913"
          ELSE /\ raised' = "KeyError"
               /\ pc' = "raised"
               /\ UNCHANGED <<frames, phonemeList>>
    /\ UNCHANGED driverVars
    /\ UNCHANGED <<ipaText, language, normText, renormText, speed, clauseType,
                   intonationParams,
                   slowdown, pitchCall>>

NextGen ==
    \/ GenNormalize
    \/ GenSegment
    \/ GenCorrectH
    \/ GenTimes
    \/ GenPitches
    \/ GenYield

SpecGen == InitGen /\ [][NextGen]_vars

\* ------------------------------- claims about generateFramesAndTiming
Hello == <<"h", "open_e", "pri", "l", "o", "upsilon">>

\* C4: calculatePhonemePitches selects the row of '.' for every clauseType
\* that is not a key of the table, None or any other character, and does
\* not fail.
C4_UnknownClauseTypeGetsDotRow ==
    [][(GenPitches /\ clauseType \notin IntonationKeys) =>
          (intonationParams' = "." /\ raised' = "none")]_vars

\* C5: for every speed, zero and negative ones included, the call raises
\* no exception and, once it has returned for a list that is not empty, has
\* yielded one triple per record.  (Clause types outside the table are left
\* to C4.)
C5_TotalInSpeed ==
    clauseType \in IntonationKeys \cup {"None"} =>
        /\ raised = "none"
        /\ pc /= "raised"
        /\ (pc = "returned" /\ phonemeList /= <<>>) =>
               Len(frames) = Len(phonemeList)

\* C10: for the text h E ' l o U with language en-us the list segmented
\* from the normalized text has the o record with _tiedTo directly followed
\* by the upsilon record with _tiedFrom.
C10_HelloDiphthongTied ==
    (pc = "line 910" /\ ipaText = Hello /\ language = <<"e","n","-","u","s">>) =>
        \E i \in 1..(Len(phonemeList) - 1) :
            /\ phonemeList[i].char = "o"
            /\ phonemeList[i].tiedTo
            /\ phonemeList[i + 1].char = "upsilon"
            /\ phonemeList[i + 1].tiedFrom

\* C11: for the text alpha (U+0251) with language hu the normalizer gives
\* the internal Hungarian vowel and the timer gives its record 0.85 times
\* the unadjusted vowel duration 60/speed.
C11_HungarianShortA ==
    (pc = "line 912" /\ ipaText = <<"alpha">> /\ language = <<"h","u">>) =>
        /\ normText \in {<<"sideways_open_o">>, <<"smallcap_a">>}
        /\ Len(phonemeList) = 1
        /\ phonemeList[1].duration = FMul(Frac(85, 100), FDiv(Num(60), speed))

\* ------------------------------------------- language tags: both resolutions
\* normalizeIPA (lines 106-127) and _get_stress_slowdown (lines 80-89) are
\* run on the same tag
MaxTagParts == 2

LangBases == {<<"e","n">>, <<"E","N">>, <<"h","u">>, <<"x","x">>,
              <<"e","n","x">>, <<"h","u","x">>}
\* the tails of a tag: up to n components, each after a separator
RECURSIVE LangTails(_)
LangTails(n) ==
    IF n = 0 THEN {<<>>}
    ELSE LET shorter == LangTails(n - 1)
         IN shorter \cup
                {t \o sep \o part : t \in shorter,
                                    sep \in {<<"-">>, <<"_">>},
                                    part \in {<<"g","b">>, <<"u","k">>,
                                              <<"U","S">>, <<"x">>}}

LangTags == {<<>>} \cup {b \o t : b \in LangBases, t \in LangTails(MaxTagParts)}

LangTexts == {<<"o", "U">>, <<"a", "a">>, <<"A">>}

InitLang ==
    /\ DriverIdle
    /\ pc = "call normalizeIPA"
    /\ ipaText \in LangTexts
    /\ language \in LangTags
    /\ phonemeList = <<>>
    /\ normText = <<>>
    /\ renormText = <<>>
    /\ speed = <<1, 1>>
    /\ clauseType = "None"
    /\ intonationParams = "None"
    /\ raised = "none"
    /\ frames = <<>>
    /\ slowdown = <<>>
    /\ pitchCall = <<>>

LangNormalize ==
    /\ pc = "call normalizeIPA"
    /\ normText' = normalizeIPA(ipaText, language)
    /\ pc' = "call _get_stress_slowdown"
    /\ UNCHANGED driverVars
    /\ UNCHANGED <<ipaText, language, phonemeList, renormText, speed, clauseType,
                   intonationParams, raised, frames, slowdown, pitchCall>>

LangSlowdown ==
    /\ pc = "call _get_stress_slowdown"
    /\ slowdown' = get_stress_slowdown(language)
    /\ pc' = "resolved"
    /\ UNCHANGED driverVars
    /\ UNCHANGED <<ipaText, language, phonemeList, normText, renormText, speed,
                   clauseType, intonationParams, raised, frames, pitchCall>>

NextLang == LangNormalize \/ LangSlowdown

SpecLang == InitLang /\ [][NextLang]_vars

\* the normalized tag is en or en-...
EnglishTag(lang) == lang = <<"e","n">> \/ StartsWith(lang, <<"e","n","-">>)

\* C12: of the tags en and en-*, exactly en, en-gb and en-uk are non-rhotic
\* and every other one (en-gb-x and en-uk-y included) is rhotic: the
\* mnemonic oU becomes schwa+tie+upsilon for the three and o+tie+upsilon for
\* the others.
C12_Rhoticity ==
    (pc = "resolved" /\ ipaText = <<"o", "U">> /\ EnglishTag(NormLang(language))) =>
        normText = IF NormLang(language) \in { <<"e","n">>,
                                               <<"e","n","-","g","b">>,
                                               <<"e","n","-","u","k">> }
                   THEN <<"schwa", "tie", "upsilon">>
                   ELSE <<"o", "tie", "upsilon">>

\* some prefix of the normalized tag that ends at a '-' or at the end of
\* the tag is a key of the cadence table
KnownLanguage(lang) ==
    \E n \in 1..Len(lang) :
        /\ n = Len(lang) \/ lang[n + 1] = "-"
        /\ StressSlowdownByLang(SubSeq(lang, 1, n)) /= <<>>

\* C13: a tag none of whose dash-component prefixes is a known language
\* gets the default cadence divisors and no language-specific rewrite: the
\* mnemonics oU, aa and A come out as they do without a language.
C13_UnknownTagTakesNoLanguagePath ==
    (pc = "resolved" /\ ~KnownLanguage(NormLang(language))) =>
        /\ slowdown = StressSlowdownDefault
        /\ normText = CASE ipaText = <<"o", "U">> -> <<"o", "upsilon">>
                        [] ipaText = <<"a", "a">> -> <<"a", "a">>
                        [] ipaText = <<"A">> -> <<"alpha">>

\* ------------------- IPAToPhonemes, calculatePhonemeTimes, applyPitchPath
\* the timer on the lists the segmenter produces, then one pitch path over
\* a range of the timed list
MaxTimeLen == 3

TimeAlphabet == {"a", "u", "sideways_open_o", "t", "s", "l", "r", "fishhook_r",
                 "esh", " ", "pri", "long", "tie"}
TimeLanguages == {<<>>, <<"e", "n">>, <<"h", "u">>,
                  <<"e", "n", "-", "x">>, <<"H", "U", "_", "x">>}
TimeSpeeds == {<<1, 2>>, <<7, 1>>}
TimePercents == {<<0, 100>>, <<80, 20>>}

\* longer texts with a stressed and an unstressed syllable
TimeScenarios ==
    { <<"pri", "a", " ", "a">>,
      <<"pri", "a", "a", " ", "a", "a">>,
      <<"sec", "t", "a", " ", "a">>,
      <<"a", " ", "pri", "a", " ", "sec", "a", " ", "a">>,
      <<"pri", "a", "pri", "a">>,
      <<"pri", "a", " ", "a", " ", "a", " ", "pri", "a">>,
      <<"s", "pri", "t", "a", "pri", "l", "a", "s", " ", "pri", "a", "t">>,
      <<"l", "a", "pri", "t", "a", "s", "a", "sec", "l", "a", "pri", "a", "l", "a">>,
      <<"a", "sec", "l", "a", "s", "pri", "a", "l">> }

InitTime ==
    /\ DriverIdle
    /\ pc = "call IPAToPhonemes"
    /\ ipaText \in Strings(TimeAlphabet, MaxTimeLen) \cup TimeScenarios
    /\ language \in TimeLanguages
    /\ speed \in TimeSpeeds
    /\ phonemeList = <<>>
    /\ normText = <<>>
    /\ renormText = <<>>
    /\ clauseType = "None"
    /\ intonationParams = "None"
    /\ raised = "none"
    /\ frames = <<>>
    /\ slowdown = <<>>
    /\ pitchCall = <<>>

TimeSegment ==
    /\ pc = "call IPAToPhonemes"
    /\ phonemeList' = IPAToPhonemes(ipaText, language)
    /\ pc' = "call calculatePhonemeTimes"
    /\ UNCHANGED driverVars
    /\ UNCHANGED <<ipaText, language, normText, renormText, speed, clauseType,
                   intonationParams, raised, frames, slowdown, pitchCall>>

TimeTimes ==
    /\ pc = "call calculatePhonemeTimes"
    /\ LET out == calculatePhonemeTimes(phonemeList, speed, language)
       IN /\ phonemeList' = out.list
          /\ raised' = out.raised
    /\ pc' = "call applyPitchPath"
    /\ UNCHANGED driverVars
    /\ UNCHANGED <<ipaText, language, normText, renormText, speed, clauseType,
                   intonationParams, frames, slowdown, pitchCall>>

\* applyPitchPath(phonemeList, startIndex, endIndex, ...) on any range of
\* the timed list
TimePitchPath ==
    /\ pc = "call applyPitchPath"
    /\ raised = "none"
    /\ \E startIndex \in 0..Len(phonemeList), percents \in TimePercents :
         \E endIndex \in startIndex..Len(phonemeList) :
            LET out == applyPitchPath([list |-> phonemeList, raised |-> "none"],
                                      startIndex, endIndex,
                                      percents[1], percents[2])
            IN /\ phonemeList' = out.list
               /\ raised' = out.raised
               /\ pitchCall' = [startIndex |-> startIndex, endIndex |-> endIndex,
                                startPercent |-> percents[1],
                                endPercent |-> percents[2]]
    /\ pc' = "returned applyPitchPath"
    /\ UNCHANGED driverVars
    /\ UNCHANGED <<ipaText, language, normText, renormText, speed, clauseType,
                   intonationParams, frames, slowdown>>

\* calculatePhonemePitches on the timed list, for the clause types of the
\* table
TimePitches ==
    /\ pc = "call applyPitchPath"
    /\ raised = "none"
    /\ \E clause \in IntonationKeys :
          LET out == calculatePhonemePitches(phonemeList, clause)
          IN /\ clauseType' = clause
             /\ phonemeList' = out.list
             /\ intonationParams' = out.row
             /\ raised' = out.raised
    /\ pc' = "returned calculatePhonemePitches"
    /\ UNCHANGED driverVars
    /\ UNCHANGED <<ipaText, language, normText, renormText, speed, frames,
                   slowdown, pitchCall>>

NextTime == TimeSegment \/ TimeTimes \/ TimePitchPath \/ TimePitches

SpecTime == InitTime /\ [][NextTime]_vars

\* calculatePhonemeTimes has returned
Timed == pc = "call applyPitchPath" /\ raised = "none"

\* C14: after calculatePhonemeTimes with a positive speed, every record of
\* the list, inserted gap and aspiration records included, has a duration
\* and a fade duration greater than zero.
C14_DurationsPositive ==
    Timed => \A i \in 1..Len(phonemeList) :
                /\ FLess(Num(0), phonemeList[i].duration)
                /\ FLess(Num(0), phonemeList[i].fadeDuration)

C14_Witness ==
    /\ Timed
    /\ FLess(Num(1), speed)
    /\ \E i, j, k \in 1..Len(phonemeList) :
          /\ phonemeList[i].preStopGap
          /\ phonemeList[j].postStopAspiration
          /\ phonemeList[k].isStop

\* applyPitchPath has returned; the indices of its range, counted from 1
Pitched == pc = "returned applyPitchPath" /\ raised = "none"
PitchRange == (pitchCall.startIndex + 1)..pitchCall.endIndex
FLeq(x, y) == ~FLess(y, x)

\* C15: over the range of one applyPitchPath call on records with positive
\* durations, every pitch lies on the path from startPitch to endPitch and
\* the places on it never go back; the first voicePitch is startPitch, each
\* later voicePitch is the endVoicePitch before it, an unvoiced record ends
\* on the pitch it starts on, and with a voiced record in the range the
\* last endVoicePitch is endPitch.
C15_PitchPath ==
    Pitched =>
        /\ \A i \in PitchRange :
              LET phoneme == phonemeList[i]
              IN /\ phoneme.voicePitch.from = pitchCall.startPercent
                 /\ phoneme.voicePitch.to = pitchCall.endPercent
                 /\ phoneme.endVoicePitch.from = pitchCall.startPercent
                 /\ phoneme.endVoicePitch.to = pitchCall.endPercent
                 /\ FLeq(Num(0), phoneme.voicePitch.ratio)
                 /\ FLeq(phoneme.voicePitch.ratio, phoneme.endVoicePitch.ratio)
                 /\ FLeq(phoneme.endVoicePitch.ratio, Num(1))
                 /\ i = pitchCall.startIndex + 1 => phoneme.voicePitch.ratio = Num(0)
                 /\ i > pitchCall.startIndex + 1 =>
                        phoneme.voicePitch = phonemeList[i - 1].endVoicePitch
                 /\ ~phoneme.isVoiced => phoneme.endVoicePitch = phoneme.voicePitch
        /\ (\E i \in PitchRange : phonemeList[i].isVoiced) =>
                phonemeList[pitchCall.endIndex].endVoicePitch.ratio = Num(1)

C15_Witness ==
    /\ Pitched
    /\ pitchCall.endIndex - pitchCall.startIndex >= 3
    /\ pitchCall.startPercent > pitchCall.endPercent
    /\ phonemeList[pitchCall.startIndex + 1].isVoiced
    /\ ~phonemeList[pitchCall.startIndex + 2].isVoiced
    /\ phonemeList[pitchCall.startIndex + 3].isVoiced
    /\ phonemeList[pitchCall.startIndex + 2].voicePitch.ratio \notin {Num(0), Num(1)}

\* the list as calculatePhonemeTimes leaves it for the normalized text
TimedList ==
    calculatePhonemeTimes(correctHPhonemes(IPAToPhonemes(normText, language)),
                          speed, language).list

\* C16: when generateFramesAndTiming has returned, it has yielded one
\* triple per record of the timed list, the i-th triple for the i-th
\* record: the first component is None exactly for a _silence record and
\* otherwise the frame made from that record, the other two are the
\* record's _duration and _fadeDuration; an empty list gives no triple.
C16_OneTriplePerRecord ==
    pc = "returned" =>
        \A timed \in {TimedList} :
            /\ Len(frames) = Len(timed)
            /\ Len(frames) = Len(phonemeList)
            /\ \A i \in 1..Len(frames) :
                  /\ frames[i].frame = <<>> <=> timed[i].silence
                  /\ ~timed[i].silence =>
                         frames[i].frame = <<Frame(phonemeList[i])>>
                  /\ phonemeList[i].src = timed[i].src
                  /\ phonemeList[i].char = timed[i].char
                  /\ frames[i].frameDuration = timed[i].duration
                  /\ frames[i].fadeDuration = timed[i].fadeDuration

C16_Witness ==
    /\ pc = "returned"
    /\ Len(frames) >= 3
    /\ \E i, j \in 1..Len(frames) :
          /\ i < j
          /\ frames[i].frame = <<>>
          /\ frames[j].frame /= <<>>
          /\ frames[i].frameDuration /= frames[j].frameDuration

\* the outcome of the loop of IPAToPhonemes for the text and language of
\* the call: its list and the exception it raised, if any
SegOutcome ==
    SegLoop([ list |-> <<>>, newWord |-> TRUE, last |-> 0, syl |-> 0,
              raised |-> "none" ],
            SegIsEnglish(language), IPAToPhonemesHelper(ipaText), 1)

\* the character at position k is the last one of a tied table entry
\* (such as t+tie+esh) that starts two places before it
EndsTiedEntry(k) == k >= 3 /\ SubSeq(ipaText, k - 2, k) \in DataKeys

\* C17: a character without a table entry gives no record and no failure;
\* every character with an entry gives a record (unless it is the last
\* character of a tied entry, which gives one record as a whole), and the
\* records of the characters stand in the order of the text.
C17_UnknownCharacterSkipped ==
    Returned =>
        /\ SegOutcome.raised = "none"
        /\ \A i \in Records :
              ~Inserted(phonemeList[i]) =>
                  /\ phonemeList[i].src \in 1..Len(ipaText)
                  /\ phonemeList[i].char = ipaText[phonemeList[i].src]
                  /\ <<phonemeList[i].char>> \in DataKeys
                  /\ \A j \in RealAfter(i) :
                        phonemeList[i].src < phonemeList[j].src
        /\ \A k \in 1..Len(ipaText) :
              (<<ipaText[k]>> \in DataKeys /\ ~EndsTiedEntry(k)) =>
                  \E i \in Records : phonemeList[i].src = k

C17_Witness ==
    /\ Returned
    /\ \E k \in 2..(Len(ipaText) - 1) :
          /\ <<ipaText[k]>> \notin DataKeys
          /\ ipaText[k] \notin {" ", "pri", "sec", "long", "tie"}
          /\ \E i \in 1..(Len(phonemeList) - 1) :
                /\ phonemeList[i].src = k - 1
                /\ phonemeList[i + 1].src = k + 1

\* a record of a voiceless stop; a voiced record that is neither a stop
\* nor an affricate
VoicelessStop(r) == r.isStop /\ ~r.isVoiced /\ ~Inserted(r)
AspirationTrigger(r) == r.isVoiced /\ ~r.isStop /\ ~r.isAfricate /\ ~Inserted(r)

\* the aspiration record at i stands directly between a voiceless stop and
\* the voiced record that follows it
AspirationPlaced(i) ==
    /\ 1 < i
    /\ i < Len(phonemeList)
    /\ VoicelessStop(phonemeList[i - 1])
    /\ AspirationTrigger(phonemeList[i + 1])

\* every aspiration record is placed, none is next to another one, and
\* with aspiration on no voiceless stop is directly followed by its voiced
\* record
AspirationRule(on) ==
    /\ \A i \in Records :
          phonemeList[i].postStopAspiration =>
              /\ on
              /\ AspirationPlaced(i)
              /\ ~phonemeList[i + 1].postStopAspiration
    /\ on => \A i \in 1..(Len(phonemeList) - 1) :
                 ~(VoicelessStop(phonemeList[i])
                     /\ AspirationTrigger(phonemeList[i + 1]))

\* C18, as stated: aspiration records occur only for an English tag, once
\* between a voiceless stop and the voiced non-stop, non-affricate record
\* directly after it, never two in a row, and never without a language.
C18_AspirationOnlyForEnglishTag ==
    Returned => AspirationRule(StartsWith(NormLang(language), <<"e", "n">>))

\* C18, amended: the same with aspiration on when the tag begins with en
\* or when no language is given.
C18_AspirationForEnglishOrNoLanguage ==
    Returned => AspirationRule(language = <<>>
                                \/ StartsWith(NormLang(language), <<"e", "n">>))

C18_Witness ==
    /\ Returned
    /\ language = <<>>
    /\ \E i \in Records : phonemeList[i].postStopAspiration
    /\ Len(phonemeList) >= 4

\* the stress markers of the text that are pending when the record at i is
\* emitted: those after the character of the last record before it
PendingMarkers(i) ==
    {k \in 1..(phonemeList[i].src - 1) :
        /\ ipaText[k] \in {"pri", "sec"}
        /\ \A j \in RealBefore(i) : phonemeList[j].src < k}

\* the record at i consumes a pending stress; the stress it consumes
ConsumesStress(i) == ~Inserted(phonemeList[i]) /\ PendingMarkers(i) /= {}
ConsumedStress(i) == IF ipaText[SetMax(PendingMarkers(i))] = "pri" THEN 1 ELSE 2

\* the nearest record at or before i that carries _syllableStart (0: none)
NearestSyllableStart(i) ==
    SetMax({0} \cup {j \in 1..i : phonemeList[j].syllableStart})

\* C19: in the returned list the stress consumed by a phoneme stands on the
\* nearest _syllableStart record at or before that phoneme, primary and
\* secondary alike, and no other record carries a stress.
C19_StressOnOwnSyllableStart ==
    Returned =>
        /\ \A i \in Records :
              ConsumesStress(i) =>
                  /\ NearestSyllableStart(i) > 0
                  /\ phonemeList[NearestSyllableStart(i)].stress = ConsumedStress(i)
        /\ \A j \in Records :
              phonemeList[j].stress /= 0 =>
                  \E i \in Records : ConsumesStress(i) /\ NearestSyllableStart(i) = j

\* ------------------------------ calculatePhonemeTimes on one record alone
\* a list of one record that carries any combination of the flags the
\* branches of lines 681-728 test
FlagSets ==
    SUBSET {"preStopGap", "postStopAspiration", "isTap", "isTrill", "isStop",
            "isAfricate", "isVoiced", "isVowel"}

FlagRecord(F) ==
    [ Merge([ isVowel |-> "isVowel" \in F, isVoiced |-> "isVoiced" \in F,
              isStop |-> "isStop" \in F, isAfricate |-> "isAfricate" \in F,
              isLiquid |-> FALSE, isNasal |-> FALSE, isSemivowel |-> FALSE,
              isTap |-> "isTap" \in F, isTrill |-> "isTrill" \in F,
              copyAdjacent |-> FALSE, acoustic |-> <<>> ], NoAnnotations)
      EXCEPT !.preStopGap = "preStopGap" \in F,
             !.postStopAspiration = "postStopAspiration" \in F,
             !.char = "x" ]

InitFlags ==
    /\ DriverIdle
    /\ pc = "call calculatePhonemeTimes"
    /\ phonemeList \in {<<FlagRecord(F)>> : F \in FlagSets}
    /\ speed \in TimeSpeeds
    /\ language = <<>>
    /\ ipaText = <<>>
    /\ normText = <<>>
    /\ renormText = <<>>
    /\ clauseType = "None"
    /\ intonationParams = "None"
    /\ raised = "none"
    /\ frames = <<>>
    /\ slowdown = <<>>
    /\ pitchCall = <<>>

NextFlags == TimeTimes

SpecFlags == InitFlags /\ [][NextFlags]_vars

\* n/speed
PerSpeed(n) == FDiv(Num(n), speed)

\* C20: the duration and fade of a record are those of the first rule that
\* matches in the order gap, aspiration, tap, trill, stop, affricate,
\* voiceless, voiced vowel, voiced consonant, whatever other flags the
\* record carries.
C20_FirstMatchInSpecOrder ==
    (Timed /\ Len(phonemeList) = 1) =>
        <<phonemeList[1].duration, phonemeList[1].fadeDuration>> =
            IF phonemeList[1].preStopGap THEN <<PerSpeed(41), PerSpeed(10)>>
            ELSE IF phonemeList[1].postStopAspiration
            THEN <<PerSpeed(20), PerSpeed(10)>>
            ELSE IF phonemeList[1].isTap
            THEN <<FMin(PerSpeed(14), Num(14)), Frac(1, 1000)>>
            ELSE IF phonemeList[1].isTrill THEN <<PerSpeed(22), Frac(1, 1000)>>
            ELSE IF phonemeList[1].isStop
            THEN <<FMin(PerSpeed(6), Num(6)), Frac(1, 1000)>>
            ELSE IF phonemeList[1].isAfricate THEN <<PerSpeed(24), Frac(1, 1000)>>
            ELSE IF ~phonemeList[1].isVoiced THEN <<PerSpeed(45), PerSpeed(10)>>
            ELSE IF phonemeList[1].isVowel THEN <<PerSpeed(60), PerSpeed(10)>>
            ELSE <<PerSpeed(30), PerSpeed(10)>>

\* the first dash component of the normalized tag of the call
BaseTag ==
    LET lang == NormLang(language)
        dashes == {n \in 1..Len(lang) : lang[n] = "-"}
    IN IF dashes = {} THEN lang ELSE SubSeq(lang, 1, SetMin(dashes) - 1)

\* the divisors the claim gives for the tag of the call
ClaimedDivisors ==
    IF BaseTag \in { <<"h","u">>, <<"p","l">>, <<"e","s">>, <<"p","t">>,
                     <<"f","r">>, <<"d","e">>, <<"i","t">>, <<"d","a">>,
                     <<"r","o">> }
    THEN <<Frac(125, 100), Frac(107, 100)>>
    ELSE <<Frac(14, 10), Frac(11, 10)>>

\* the stress of the syllable of the record at i, and the speed the claim
\* gives for it
SyllableStressAt(i) ==
    IF NearestSyllableStart(i) = 0 THEN 0
    ELSE phonemeList[NearestSyllableStart(i)].stress
ClaimedSpeed(i) ==
    IF SyllableStressAt(i) = 1 THEN FDiv(speed, ClaimedDivisors[1])
    ELSE IF SyllableStressAt(i) = 2 THEN FDiv(speed, ClaimedDivisors[2])
    ELSE speed

\* the duration and fade of the record at i when it is timed at speed v
DurationsAt(i, v) ==
    AdjustDurations(phonemeList, i, v, NormLang(language),
                    StartsWith(NormLang(language), <<"e", "n">>),
                    BaseDurations(phonemeList, i, v, SyllableStressAt(i),
                                  StartsWith(NormLang(language), <<"e", "n">>)))

\* the record at i is the last one of its word
WordFinal(i) == i = Len(phonemeList) \/ phonemeList[i + 1].wordStart

\* two vowel records that differ only in the stress of their syllable
SameVowel(i, j) ==
    /\ phonemeList[i].isVowel /\ phonemeList[j].isVowel
    /\ phonemeList[i].syllableStart /\ phonemeList[j].syllableStart
    /\ phonemeList[i].char = phonemeList[j].char
    /\ phonemeList[i].tiedTo = phonemeList[j].tiedTo
    /\ phonemeList[i].tiedFrom = phonemeList[j].tiedFrom
    /\ phonemeList[i].lengthened = phonemeList[j].lengthened
    /\ WordFinal(i) = WordFinal(j)

PitchesSet == pc = "returned calculatePhonemePitches" /\ raised = "none"

\* the last syllable start with primary stress (0: none), and the first
\* syllable start after it (one past the end of the list: none)
LastStressedStart ==
    SetMax({0} \cup {i \in Records : phonemeList[i].syllableStart
                                      /\ phonemeList[i].stress = 1})
ClaimedTailStart ==
    SetMin({Len(phonemeList) + 1}
           \cup {i \in Records : i > LastStressedStart
                                  /\ phonemeList[i].syllableStart})

\* the record at i lies on the path between the two percentages
OnPath(i, startPercent, endPercent) ==
    /\ phonemeList[i].voicePitch.from = Num(startPercent)
    /\ phonemeList[i].voicePitch.to = Num(endPercent)
    /\ phonemeList[i].endVoicePitch.from = Num(startPercent)
    /\ phonemeList[i].endVoicePitch.to = Num(endPercent)

\* C22: the nucleus runs from the last syllable start with primary stress
\* to the first syllable start after it (or the end of the list), the
\* tail from there to the end; the nucleus is on the nucleusStart-
\* nucleusEnd path when there is a tail and on the nucleus0Start-
\* nucleus0End path when there is none; a syllable start with secondary
\* stress is treated as an unstressed one.
C22_NucleusAndTail ==
    (PitchesSet /\ LastStressedStart > 0) =>
        /\ \A i \in LastStressedStart..(ClaimedTailStart - 1) :
              IF ClaimedTailStart <= Len(phonemeList)
              THEN OnPath(i, intonationParamTable(intonationParams).nucleusStart,
                             intonationParamTable(intonationParams).nucleusEnd)
              ELSE OnPath(i, intonationParamTable(intonationParams).nucleus0Start,
                             intonationParamTable(intonationParams).nucleus0End)
        /\ \A i \in ClaimedTailStart..Len(phonemeList) :
              OnPath(i, intonationParamTable(intonationParams).tailStart,
                        intonationParamTable(intonationParams).tailEnd)
        /\ phonemeList[LastStressedStart].voicePitch.ratio = Num(0)
        /\ ClaimedTailStart <= Len(phonemeList) =>
              phonemeList[ClaimedTailStart].voicePitch.ratio = Num(0)

C22_Witness ==
    /\ PitchesSet
    /\ LastStressedStart > 1
    /\ ClaimedTailStart <= Len(phonemeList)
    /\ phonemeList[ClaimedTailStart].stress = 2
    /\ phonemeList[ClaimedTailStart].voicePitch.from =
           Num(intonationParamTable(intonationParams).tailStart)

\* the non-private keys the claim has the record at i of the list gain:
\* those of the next record when there is one and it is not silent,
\* otherwise those of the previous record, as the call has left it
ClaimedSource(before, after, i) ==
    IF i < Len(before) /\ ~before[i + 1].silence THEN before[i + 1].acoustic
    ELSE IF i > 1 THEN after[i - 1].acoustic
    ELSE <<>>

\* the record differs from what it was only in non-private keys that were
\* absent and that source holds, each with the value source holds
OnlyAbsentKeysAdded(old, new, source) ==
    /\ [new EXCEPT !.acoustic = old.acoustic] = old
    /\ DOMAIN new.acoustic = (DOMAIN old.acoustic) \cup (DOMAIN source)
    /\ \A k \in DOMAIN new.acoustic :
          new.acoustic[k] = IF k \in DOMAIN old.acoustic THEN old.acoustic[k]
                            ELSE source[k]

\* C23: correctHPhonemes keeps the length and order of the list and every
\* record without _copyAdjacent; on a record with _copyAdjacent it only
\* adds the non-private keys that were absent, from the next record when
\* that exists and is not silent, otherwise from the previous record, and
\* leaves its private keys and the keys it already had as they were.
C23_OnlyCopyAdjacentGainsKeys ==
    [][GenCorrectH =>
          /\ Len(phonemeList') = Len(phonemeList)
          /\ \A i \in 1..Len(phonemeList) :
                IF phonemeList[i].copyAdjacent
                THEN OnlyAbsentKeysAdded(phonemeList[i], phonemeList'[i],
                         ClaimedSource(phonemeList, phonemeList', i))
                ELSE phonemeList'[i] = phonemeList[i]]_vars

C23_Witness ==
    /\ pc = "line 911"
    /\ \E i, j \in 2..(Len(phonemeList) - 1) :
          /\ phonemeList[i].copyAdjacent /\ phonemeList[j].copyAdjacent
          /\ phonemeList[i + 1].silence
          /\ phonemeList[i].acoustic.cf1 = phonemeList[i - 1].acoustic.cf1
          /\ ~phonemeList[j + 1].silence
          /\ phonemeList[j].acoustic.cf1 = phonemeList[j + 1].acoustic.cf1
          /\ phonemeList[j].acoustic.cf1 /= phonemeList[j - 1].char

\* the nearest syllable start before the record at i (0: none)
SyllableStartBefore(i) ==
    SetMax({0} \cup {j \in 1..(i - 1) : phonemeList[j].syllableStart})

\* the record at i, inside the head, begins a stressed stretch or an
\* unstressed run: a syllable start with primary stress, or a syllable
\* start that follows one with primary stress
HeadRunStart(i) ==
    /\ Regions(phonemeList).preHeadEnd < i
    /\ i <= Regions(phonemeList).nucleusStart
    /\ phonemeList[i].syllableStart
    /\ \/ phonemeList[i].stress = 1
       \/ phonemeList[SyllableStartBefore(i)].stress = 1

\* the records at which a pitch path begins: the first record of the
\* pre-head, of each run of the head, of the nucleus and of the tail
PathStarts ==
    {i \in Records :
        \/ i = 1 /\ Regions(phonemeList).preHeadEnd > 0
        \/ HeadRunStart(i)
        \/ i = Regions(phonemeList).nucleusStart + 1
        \/ i = Regions(phonemeList).tailStart + 1}

\* the first record of the path that holds the record at i
PathStartOf(i) == SetMax({0} \cup {j \in PathStarts : j <= i})

\* C26: the bounds of the regions are in order and inside the list, no
\* index outside the list is read, and the pre-head, the runs of the head,
\* the nucleus and the tail cover every record once: every record has
\* voicePitch and endVoicePitch, a path starts afresh at the first record
\* of each range, runs on unbroken through the others and reaches its end
\* at the last record of the range when the range has a voiced record.
C26_RegionsCoverList ==
    pc = "returned calculatePhonemePitches" =>
        /\ raised = "none"
        /\ 0 <= Regions(phonemeList).preHeadEnd
        /\ Regions(phonemeList).preHeadEnd <= Regions(phonemeList).nucleusStart
        /\ Regions(phonemeList).nucleusStart <= Regions(phonemeList).tailStart
        /\ Regions(phonemeList).tailStart <= Len(phonemeList)
        /\ \A i \in Records :
              /\ {"voicePitch", "endVoicePitch"} \subseteq DOMAIN phonemeList[i]
              /\ PathStartOf(i) > 0
              /\ IF i \in PathStarts
                 THEN phonemeList[i].voicePitch.ratio = Num(0)
                 ELSE phonemeList[i].voicePitch = phonemeList[i - 1].endVoicePitch
              /\ ( /\ i = Len(phonemeList) \/ (i + 1) \in PathStarts
                   /\ \E j \in PathStartOf(i)..i : phonemeList[j].isVoiced )
                 => phonemeList[i].endVoicePitch.ratio = Num(1)

C26_Witness ==
    /\ PitchesSet
    /\ 0 < Regions(phonemeList).preHeadEnd
    /\ Regions(phonemeList).preHeadEnd < Regions(phonemeList).nucleusStart
    /\ Regions(phonemeList).tailStart < Len(phonemeList)
    /\ \E i \in PathStarts : HeadRunStart(i) /\ phonemeList[i].stress /= 1
    /\ \A i \in Records : "endVoicePitch" \in DOMAIN phonemeList[i]

\* ============================================================ synth driver
\* The three threads of the NVDA synth driver.  The caller thread runs
\* speak() and cancel(); _BgThread takes items from _bgQueue and runs them;
\* _AudioThread synthesizes what the player holds.  terminate() is not
\* modelled: _keepAlive stays True and the stop event stays clear.  The
\* player is a first-in first-out queue of frames; a frame is written as the
\* number of the request it belongs to, and 0 for the silence of cancel().
MaxSpeaks == 2
MaxFrames == 1

\* the frames of request u that the player holds
FramesOf(queue, u) == Cardinality({i \in DOMAIN queue : queue[i] = u})

InitDriver ==
    /\ DriverIdle
    /\ pc = "driver"
    /\ phonemeList = <<>>
    /\ speed = Num(1)
    /\ language = <<>>
    /\ ipaText = <<>>
    /\ normText = <<>>
    /\ renormText = <<>>
    /\ clauseType = "None"
    /\ intonationParams = "None"
    /\ raised = "none"
    /\ frames = <<>>
    /\ slowdown = <<>>
    /\ pitchCall = <<>>

\* speak(speechSequence): a sequence without text enqueues
\* _notifyIndexesAndDone, one with text enqueues _speakBg.  count is the
\* number of triples generateFramesAndTiming will yield for the text.
Speak ==
    /\ callerPc = "idle"
    /\ speaks < MaxSpeaks
    /\ \E anyText \in BOOLEAN, count \in 0..MaxFrames :
         /\ ~anyText => count = 0
         /\ bgQueue' = Append(bgQueue,
               [id |-> speaks + 1,
                func |-> IF anyText THEN "_speakBg" ELSE "_notifyIndexesAndDone",
                frames |-> count])
    /\ speaks' = speaks + 1
    /\ UNCHANGED <<callerPc, cancelledUpTo, bgPc, bgItem, bgLeft, player,
                   isSpeaking, wake, audioPc>>
    /\ UNCHANGED pipelineVars

\* cancel(), first statement: queueFrame(None, 20.0, 5.0, purgeQueue=True)
CancelPurge ==
    /\ callerPc = "idle"
    /\ player' = <<0>>
    /\ callerPc' = "cancel isSpeaking"
    /\ UNCHANGED <<speaks, cancelledUpTo, bgQueue, bgPc, bgItem, bgLeft,
                   isSpeaking, wake, audioPc>>
    /\ UNCHANGED pipelineVars

\* cancel(): self._audio.isSpeaking = False
CancelReset ==
    /\ callerPc = "cancel isSpeaking"
    /\ isSpeaking' = FALSE
    /\ callerPc' = "cancel kick"
    /\ UNCHANGED <<speaks, cancelledUpTo, bgQueue, bgPc, bgItem, bgLeft,
                   player, wake, audioPc>>
    /\ UNCHANGED pipelineVars

\* cancel(): self._audio.kick(), then the wave player is stopped and cancel()
\* returns
CancelKick ==
    /\ callerPc = "cancel kick"
    /\ wake' = TRUE
    /\ callerPc' = "idle"
    /\ cancelledUpTo' = speaks
    /\ UNCHANGED <<speaks, bgQueue, bgPc, bgItem, bgLeft, player, isSpeaking,
                   audioPc>>
    /\ UNCHANGED pipelineVars

\* _BgThread.run: take the next item and call it.  _notifyIndexesAndDone
\* only notifies; _speakBg goes on to queue count frames and the end pause.
BgGet ==
    /\ bgPc = "get"
    /\ bgQueue /= <<>>
    /\ bgItem' = Head(bgQueue)
    /\ bgQueue' = Tail(bgQueue)
    /\ IF Head(bgQueue).func = "_speakBg"
         THEN bgPc' = "queueFrame" /\ bgLeft' = Head(bgQueue).frames + 1
         ELSE bgPc' = "get" /\ bgLeft' = 0
    /\ UNCHANGED <<speaks, callerPc, cancelledUpTo, player, isSpeaking, wake,
                   audioPc>>
    /\ UNCHANGED pipelineVars

\* _speakBg: one self._player.queueFrame(...) call, of a frame of the text or,
\* last, of the end pause
BgQueueFrame ==
    /\ bgPc = "queueFrame"
    /\ player' = Append(player, bgItem.id)
    /\ bgLeft' = bgLeft - 1
    /\ bgPc' = IF bgLeft = 1 THEN "isSpeaking" ELSE "queueFrame"
    /\ UNCHANGED <<speaks, callerPc, cancelledUpTo, bgQueue, bgItem,
                   isSpeaking, wake, audioPc>>
    /\ UNCHANGED pipelineVars

\* _speakBg: self._audio.isSpeaking = True
BgSetSpeaking ==
    /\ bgPc = "isSpeaking"
    /\ isSpeaking' = TRUE
    /\ bgPc' = "kick"
    /\ UNCHANGED <<speaks, callerPc, cancelledUpTo, bgQueue, bgItem, bgLeft,
                   player, wake, audioPc>>
    /\ UNCHANGED pipelineVars

\* _speakBg: self._audio.kick(), and the item is done
BgKick ==
    /\ bgPc = "kick"
    /\ wake' = TRUE
    /\ bgPc' = "get"
    /\ UNCHANGED <<speaks, callerPc, cancelledUpTo, bgQueue, bgItem, bgLeft,
                   player, isSpeaking, audioPc>>
    /\ UNCHANGED pipelineVars

\* _AudioThread.run: self._wake.wait() returns once the event is set
AudioWait ==
    /\ audioPc = "wait"
    /\ wake
    /\ audioPc' = "clear"
    /\ UNCHANGED <<speaks, callerPc, cancelledUpTo, bgQueue, bgPc, bgItem,
                   bgLeft, player, isSpeaking, wake>>
    /\ UNCHANGED pipelineVars

\* _AudioThread.run: self._wake.clear()
AudioClear ==
    /\ audioPc = "clear"
    /\ wake' = FALSE
    /\ audioPc' = "while"
    /\ UNCHANGED <<speaks, callerPc, cancelledUpTo, bgQueue, bgPc, bgItem,
                   bgLeft, player, isSpeaking>>
    /\ UNCHANGED pipelineVars

\* _AudioThread.run: the test of while self._keepAlive and self.isSpeaking
AudioWhile ==
    /\ audioPc = "while"
    /\ audioPc' = IF isSpeaking THEN "synthesize" ELSE "done"
    /\ UNCHANGED <<speaks, callerPc, cancelledUpTo, bgQueue, bgPc, bgItem,
                   bgLeft, player, isSpeaking, wake>>
    /\ UNCHANGED pipelineVars

\* _AudioThread.run: data = self._player.synthesize(8192).  With no frame
\* queued there is no data and the loop is left; otherwise the block takes
\* some of the frames at the front of the queue, is fed to the wave player,
\* and the loop goes on.
AudioSynthesize ==
    /\ audioPc = "synthesize"
    /\ IF player = <<>>
         THEN audioPc' = "done" /\ player' = player
         ELSE /\ audioPc' = "while"
              /\ \E taken \in 1..Len(player) :
                   player' = SubSeq(player, taken + 1, Len(player))
    /\ UNCHANGED <<speaks, callerPc, cancelledUpTo, bgQueue, bgPc, bgItem,
                   bgLeft, isSpeaking, wake>>
    /\ UNCHANGED pipelineVars

\* _AudioThread.run: the empty block whose onDone notifies synthDoneSpeaking
\* is fed, and the wave player is idled
AudioDone ==
    /\ audioPc = "done"
    /\ audioPc' = "isSpeaking"
    /\ UNCHANGED <<speaks, callerPc, cancelledUpTo, bgQueue, bgPc, bgItem,
                   bgLeft, player, isSpeaking, wake>>
    /\ UNCHANGED pipelineVars

\* _AudioThread.run: self.isSpeaking = False, and back to the wait
AudioReset ==
    /\ audioPc = "isSpeaking"
    /\ isSpeaking' = FALSE
    /\ audioPc' = "wait"
    /\ UNCHANGED <<speaks, callerPc, cancelledUpTo, bgQueue, bgPc, bgItem,
                   bgLeft, player, wake>>
    /\ UNCHANGED pipelineVars

BgNext == BgGet \/ BgQueueFrame \/ BgSetSpeaking \/ BgKick

AudioNext ==
    \/ AudioWait
    \/ AudioClear
    \/ AudioWhile
    \/ AudioSynthesize
    \/ AudioDone
    \/ AudioReset

NextDriver ==
    \/ Speak
    \/ CancelPurge
    \/ CancelReset
    \/ CancelKick
    \/ BgNext
    \/ AudioNext

SpecDriver == InitDriver /\ [][NextDriver]_vars

\* Both threads are daemon threads of the operating system and run whenever
\* they can take a step, and a cancel() that was entered runs to its return.
\* Nothing obliges the caller to call speak() or cancel().
SpecDriverFair ==
    /\ SpecDriver
    /\ WF_vars(BgNext)
    /\ WF_vars(AudioNext)
    /\ WF_vars(CancelReset \/ CancelKick)

\* _speakBg has run request u to its end: frames queued, isSpeaking set,
\* audio thread kicked
Kicked(u) ==
    /\ bgItem.func = "_speakBg"
    /\ \/ bgItem.id > u
       \/ bgItem.id = u /\ bgPc = "get"

\* C24: no wake-up is lost: once _speakBg has queued the frames of a request,
\* set isSpeaking and kicked the audio thread, the audio thread eventually
\* takes those frames out of the player, whatever the interleaving and
\* without a further speak() call.
C24_NoLostWakeUp ==
    \A u \in 1..MaxSpeaks :
        (Kicked(u) /\ FramesOf(player, u) > 0) ~> (FramesOf(player, u) = 0)

\* a frame of request u is queued into the player by this step
QueuedNow(u) == FramesOf(player', u) > FramesOf(player, u)

\* a frame of request u is synthesized by this step
SynthesizedNow(u) ==
    /\ audioPc = "synthesize"
    /\ FramesOf(player', u) < FramesOf(player, u)

\* C25: once cancel() has returned and no speak() was called after it, no
\* frame of a request made before the cancel is queued into the player or
\* synthesized, and isSpeaking is not set back to True.
C25_CancelStopsEarlierRequests ==
    [][ (cancelledUpTo > 0 /\ speaks = cancelledUpTo /\ speaks' = speaks) =>
          /\ \A u \in 1..cancelledUpTo : ~QueuedNow(u) /\ ~SynthesizedNow(u)
          /\ ~(isSpeaking' /\ ~isSpeaking) ]_vars

====
